---- MODULE Spec2Model ----
(***************************************************************************)
(* Streaming fenced-code-block filters of MetaGPT.                         *)
(*                                                                         *)
(*   - the state-machine remove filter, utils/streaming_filter.py          *)
(*   - the extract filter, utils/report.py                                 *)
(*   - the buffer-based remove filter, utils/report.py                     *)
(*   - the reporters that forward an LLM stream, utils/report.py           *)
(*   - the websocket registry and message sender, web/server/server.py     *)
(*                                                                         *)
(* A text is a sequence of one-character strings.  A stream is a text that *)
(* a producer delivers in chunks of arbitrary size; the filter under test  *)
(* consumes the chunks in order and the values it returns are concatenated *)
(* in the order they are returned.                                         *)
(***************************************************************************)
EXTENDS Integers, Sequences, FiniteSets, TLC

VARIABLES
    input,                  \* the whole text of the stream
    shape,                  \* how the text of the stream was put together
    pos,                    \* number of characters delivered to the filter so far
    outputs,                \* concatenation of every value the filter returned
    done,                   \* the producer has ended the stream
    target_langs,           \* state-machine remove filter: self.target_langs
    state,                  \*   self.state
    buffer,                 \*   self.buffer
    active_delimiter_len,   \*   self.active_delimiter_len
    should_remove,          \*   self.should_remove
    allowed_langs,          \* extract filter: self.allowed_langs
    ex_buffer,              \*   self.buffer
    in_code_block,          \*   self.in_code_block
    lang_arg,               \* the lang argument the filter was constructed with
    error,                  \* the exception the constructor raised, "" when none
    block_type,             \* buffer-based remove filter: self.block_type
    rm_buffer,              \*   self.buffer
    rm_in_code_block,       \*   self.in_code_block
    under_test,             \* which utils/report.py filter the caller drives
    calls,                  \* the calls made on it since its construction
    returned,               \* the values those calls returned
    reporter,               \* the class of the reporter, "none" when there is none
    enable_llm_stream,      \* reporter: self.enable_llm_stream
    llm_task,               \*   self._llm_task: "None", "running" or "finished"
    content_index,          \*   self._content_index
    value_type,             \*   self._value_type
    finish_content,         \*   self._finish_content (ThoughtReporter)
    queue,                  \* the LLM stream queue
    reports,                \* the data of every report sent, in order
    ctx,                    \* where the `async with` block of the reporter is
    exc_type,               \* the exception type __aexit__ was called with
    msg_queue,              \* server: the items waiting on CLIENT_MSG_QUEUE
    unfinished,             \*   the queue's count of unfinished tasks
    enqueued,               \*   number of items ever put on the queue
    websockets,             \*   CLIENT_WEBSOCKETS: client_id -> connection, 0 for no entry
    conns,                  \*   every connection accepted, in order: its client_id and status
    sender_pc,              \*   where websocket_message_sender is: "get" or "send_text"
    sender_cur,             \*   the item and the websocket of the send_text awaited
    handled                 \*   what became of every item the sender is through with

streamVars == <<input, shape, pos, outputs, done>>
smVars == <<target_langs, state, buffer, active_delimiter_len, should_remove>>
exVars == <<allowed_langs, ex_buffer, in_code_block>>
ctorVars == <<lang_arg, error>>
rmVars == <<block_type, rm_buffer, rm_in_code_block>>
callVars == <<under_test, calls, returned>>
repVars ==
    <<reporter, enable_llm_stream, llm_task, content_index, value_type,
      finish_content, queue, reports, ctx, exc_type>>
wsVars ==
    <<msg_queue, unfinished, enqueued, websockets, conns, sender_pc, sender_cur, handled>>
vars == <<streamVars, smVars, exVars, ctorVars, rmVars, callVars, repVars, wsVars>>

----------------------------------------------------------------------------
(* Bounds of the explored inputs. *)

MaxLen == 5        \* longest free text (every string over Sigma up to this length)
MaxTicks == 4      \* longest opening backtick run of a generated block
MaxChunk == 3      \* longest chunk that is not the whole rest of the stream
MaxCalls == 4      \* most calls a caller makes on one instance
MaxQueue == 2      \* most chunks waiting on the LLM stream queue
MaxObjects == 1    \* most objects reported directly inside one context
MaxMsgs == 3       \* most items put on CLIENT_MSG_QUEUE
MaxConns == 2      \* most websocket connections accepted

----------------------------------------------------------------------------
(* Characters and strings. *)

\* the backtick character (a TLA+ string cannot hold it)
BT == "BACKTICK"
NL == "\n"
SP == " "
TAB == "\t"
CR == "\r"

\* str.lower() on the letters the explored texts contain
Lower(c) ==
    CASE c = "J" -> "j"
      [] c = "S" -> "s"
      [] c = "O" -> "o"
      [] c = "N" -> "n"
      [] c = "X" -> "x"
      [] OTHER -> c

LowerStr(s) == [i \in 1..Len(s) |-> Lower(s[i])]

\* the characters str.strip() removes
IsSpace(c) == c \in {SP, TAB, NL, CR, "\f"}

RECURSIVE LStrip(_)
LStrip(s) == IF s # <<>> /\ IsSpace(Head(s)) THEN LStrip(Tail(s)) ELSE s

RECURSIVE RStrip(_)
RStrip(s) ==
    IF s # <<>> /\ IsSpace(s[Len(s)]) THEN RStrip(SubSeq(s, 1, Len(s) - 1)) ELSE s

Strip(s) == RStrip(LStrip(s))

\* a run of n backticks
Ticks(n) == [i \in 1..n |-> BT]

\* s[a:]
From(s, a) == SubSeq(s, a + 1, Len(s))

----------------------------------------------------------------------------
(* State-machine remove filter: utils/streaming_filter.py *)

\* values of the lang argument: a str; a list, tuple or set whose elements
\* are str or int; an int; None.  items holds the string, or the elements
ArgStr(s) == [type |-> "str", of |-> "str", items |-> {s}]
ArgColl(type, ss) == [type |-> type, of |-> "str", items |-> ss]
ArgInts(type, ss) == [type |-> type, of |-> "int", items |-> ss]
ArgInt == [type |-> "int", of |-> "int", items |-> {}]
ArgNone == [type |-> "NoneType", of |-> "NoneType", items |-> {}]

\* the string of a str argument
TheStr(lang) == CHOOSE s \in lang.items : TRUE

\* isinstance(lang, Iterable) for an argument that is no str
IsIterable(lang) == lang.type \in {"list", "tuple", "set"}

\* lang given as one string
LangStr(l) == [isNone |-> FALSE, langs |-> {LowerStr(l)}]

\* lang "*", "" or []
LangAll == [isNone |-> TRUE, langs |-> {}]

\* lang given as a collection of strings
LangSet(ls) == [isNone |-> FALSE, langs |-> {LowerStr(l) : l \in ls}]

\* __init__: the exception it raises ("" when none) and self.target_langs,
\* which is None from its first statement on
sm_init(lang) ==
    IF \/ lang.type = "str" /\ TheStr(lang) \in {<<"*">>, <<>>}
       \/ lang.type = "list" /\ lang.items = {}
    THEN [error |-> "", target_langs |-> LangAll]
    ELSE IF lang.type = "str"
    THEN [error |-> "", target_langs |-> LangStr(TheStr(lang))]
    ELSE IF IsIterable(lang)
    THEN IF lang.of = "str" \/ lang.items = {}
         THEN [error |-> "", target_langs |-> LangSet(lang.items)]
         ELSE [error |-> "AttributeError", target_langs |-> LangAll]
    ELSE [error |-> "", target_langs |-> LangAll]

\* check_lang with the tag compared as written
check_lang_as_written(lang, tl) ==
    IF tl.isNone THEN TRUE ELSE lang \in tl.langs

check_lang(lang, tl) ==
    IF tl.isNone THEN TRUE ELSE LowerStr(lang) \in tl.langs

\* the attributes __init__ sets
SMInitial ==
    [state |-> "OUTSIDE", buffer |-> <<>>, active_delimiter_len |-> 0,
     should_remove |-> FALSE]

\* what one pass of the body of `while not processed` yields: the filter after
\* it, what it appended to output, and whether it set processed
Did(f, out, processed) == [f |-> f, out |-> out, processed |-> processed]

\* the branch for self.state == "OUTSIDE"
Outside(f, char) ==
    IF char = BT
    THEN Did([f EXCEPT !.state = "OUTSIDE_CHECKING_TICKS", !.buffer = <<BT>>], <<>>, TRUE)
    ELSE Did(f, <<char>>, TRUE)

\* OutsideCheckingTicks with a short run returned and kept in the buffer
OutsideCheckingTicks_keeps_buffer(f, char) ==
    IF char = BT
    THEN Did([f EXCEPT !.buffer = Append(f.buffer, BT)], <<>>, TRUE)
    ELSE IF Len(f.buffer) >= 3
         THEN Did([f EXCEPT !.active_delimiter_len = Len(f.buffer),
                            !.buffer = <<>>,
                            !.state = "CAPTURING_LANG"],
                  <<>>, FALSE)
         ELSE Did([f EXCEPT !.state = "OUTSIDE"], Append(f.buffer, char), TRUE)

\* the branch for self.state == "OUTSIDE_CHECKING_TICKS"
OutsideCheckingTicks(f, char) ==
    IF char = BT
    THEN Did([f EXCEPT !.buffer = Append(f.buffer, BT)], <<>>, TRUE)
    ELSE IF Len(f.buffer) >= 3
         THEN Did([f EXCEPT !.active_delimiter_len = Len(f.buffer),
                            !.buffer = <<>>,
                            !.state = "CAPTURING_LANG"],
                  <<>>, FALSE)
         ELSE Did([f EXCEPT !.buffer = <<>>, !.state = "OUTSIDE"],
                  Append(f.buffer, char), TRUE)

\* CapturingLang with the tag returned trimmed
CapturingLang_trimmed(f, char, tl) ==
    IF char = NL
    THEN LET remove == check_lang(Strip(f.buffer), tl)
         IN  Did([f EXCEPT !.should_remove = remove, !.buffer = <<>>, !.state = "INSIDE"],
                 IF ~remove
                 THEN Ticks(f.active_delimiter_len) \o Strip(f.buffer) \o <<char>>
                 ELSE <<>>,
                 TRUE)
    ELSE Did([f EXCEPT !.buffer = Append(f.buffer, char)], <<>>, TRUE)

\* CapturingLang with the newline evaluated again in INSIDE
CapturingLang_reevaluates(f, char, tl) ==
    IF char = NL
    THEN LET remove == check_lang(Strip(f.buffer), tl)
         IN  Did([f EXCEPT !.should_remove = remove, !.buffer = <<>>, !.state = "INSIDE"],
                 IF ~remove THEN Ticks(f.active_delimiter_len) \o f.buffer ELSE <<>>,
                 FALSE)
    ELSE Did([f EXCEPT !.buffer = Append(f.buffer, char)], <<>>, TRUE)

\* CapturingLang with the decision taken anew at every character of the tag line
CapturingLang_decides_early(f, char, tl) ==
    IF char = NL
    THEN LET remove == check_lang(Strip(f.buffer), tl)
         IN  Did([f EXCEPT !.should_remove = remove, !.buffer = <<>>, !.state = "INSIDE"],
                 IF ~remove
                 THEN Ticks(f.active_delimiter_len) \o f.buffer \o <<char>>
                 ELSE <<>>,
                 TRUE)
    ELSE Did([f EXCEPT !.buffer = Append(f.buffer, char),
                       !.should_remove = check_lang(Strip(Append(f.buffer, char)), tl)],
             <<>>, TRUE)

\* the branch for self.state == "CAPTURING_LANG"
CapturingLang(f, char, tl) ==
    IF char = NL
    THEN LET remove == check_lang(Strip(f.buffer), tl)
         IN  Did([f EXCEPT !.should_remove = remove, !.buffer = <<>>, !.state = "INSIDE"],
                 IF ~remove
                 THEN Ticks(f.active_delimiter_len) \o f.buffer \o <<char>>
                 ELSE <<>>,
                 TRUE)
    ELSE Did([f EXCEPT !.buffer = Append(f.buffer, char)], <<>>, TRUE)

\* Inside with the characters of a removed block returned
Inside_returns_all(f, char) ==
    IF char = BT
    THEN Did([f EXCEPT !.state = "INSIDE_CHECKING_TICKS", !.buffer = <<BT>>], <<>>, TRUE)
    ELSE Did(f, <<char>>, TRUE)

\* the branch for self.state == "INSIDE"
Inside(f, char) ==
    IF char = BT
    THEN Did([f EXCEPT !.state = "INSIDE_CHECKING_TICKS", !.buffer = <<BT>>], <<>>, TRUE)
    ELSE Did(f, IF ~f.should_remove THEN <<char>> ELSE <<>>, TRUE)

\* Leave with the newline of a removed block's closing fence returned
Leave_keeps_newline(f, char) ==
    Did([f EXCEPT !.state = "OUTSIDE", !.active_delimiter_len = 0,
                  !.should_remove = FALSE, !.buffer = <<>>],
        IF f.should_remove THEN <<char>> ELSE Append(f.buffer, char),
        TRUE)

\* Leave with the opening length kept
Leave_keeps_length(f, char) ==
    Did([f EXCEPT !.state = "OUTSIDE", !.should_remove = FALSE, !.buffer = <<>>],
        IF f.should_remove THEN <<>> ELSE Append(f.buffer, char),
        TRUE)

\* a confirmed closer: the block is left
Leave(f, char) ==
    Did([f EXCEPT !.state = "OUTSIDE", !.active_delimiter_len = 0,
                  !.should_remove = FALSE, !.buffer = <<>>],
        IF f.should_remove THEN <<>> ELSE Append(f.buffer, char),
        TRUE)

\* Content with the suppress decision dropped at a rejected candidate
Content_forgets_decision(f, char) ==
    Did([f EXCEPT !.buffer = <<>>, !.state = "INSIDE", !.should_remove = FALSE],
        IF ~f.should_remove THEN Append(f.buffer, char) ELSE <<>>,
        TRUE)

\* not a closer: the buffer and the character are content of the block
Content(f, char) ==
    Did([f EXCEPT !.buffer = <<>>, !.state = "INSIDE"],
        IF ~f.should_remove THEN Append(f.buffer, char) ELSE <<>>,
        TRUE)

\* InsideCheckingTicks with the run measured against 3, not the opening length
InsideCheckingTicks_three(f, char) ==
    IF char = BT
    THEN Did([f EXCEPT !.buffer = Append(f.buffer, BT)], <<>>, TRUE)
    ELSE IF Len(f.buffer) >= 3
         THEN IF char = NL
              THEN Did([f EXCEPT !.state = "OUTSIDE", !.active_delimiter_len = 0,
                                 !.should_remove = FALSE, !.buffer = <<>>],
                       IF f.should_remove THEN <<>> ELSE Append(f.buffer, char), TRUE)
              ELSE IF char = SP \/ char = TAB
              THEN Did([f EXCEPT !.buffer = Append(f.buffer, char),
                                 !.state = "INSIDE_CHECKING_TRAIL"],
                       <<>>, TRUE)
              ELSE Did([f EXCEPT !.buffer = <<>>, !.state = "INSIDE"],
                       IF ~f.should_remove THEN Append(f.buffer, char) ELSE <<>>, TRUE)
         ELSE Did([f EXCEPT !.buffer = <<>>, !.state = "INSIDE"],
                  IF ~f.should_remove THEN Append(f.buffer, char) ELSE <<>>, TRUE)

\* InsideCheckingTicks with a carriage return taken as the end of the line
InsideCheckingTicks_cr_ends_line(f, char) ==
    IF char = BT
    THEN Did([f EXCEPT !.buffer = Append(f.buffer, BT)], <<>>, TRUE)
    ELSE IF Len(f.buffer) >= f.active_delimiter_len
         THEN IF char = NL \/ char = CR
              THEN Leave(f, char)
              ELSE IF char = SP \/ char = TAB
              THEN Did([f EXCEPT !.buffer = Append(f.buffer, char),
                                 !.state = "INSIDE_CHECKING_TRAIL"],
                       <<>>, TRUE)
              ELSE Content(f, char)
         ELSE Content(f, char)

\* the branch for self.state == "INSIDE_CHECKING_TICKS"
InsideCheckingTicks(f, char) ==
    IF char = BT
    THEN Did([f EXCEPT !.buffer = Append(f.buffer, BT)], <<>>, TRUE)
    ELSE IF Len(f.buffer) >= f.active_delimiter_len
         THEN IF char = NL
              THEN Leave(f, char)
              ELSE IF char = SP \/ char = TAB
              THEN Did([f EXCEPT !.buffer = Append(f.buffer, char),
                                 !.state = "INSIDE_CHECKING_TRAIL"],
                       <<>>, TRUE)
              ELSE Content(f, char)
         ELSE Content(f, char)

\* InsideCheckingTrail with any character after the blanks taken as the end of
\* the closing line
InsideCheckingTrail_any_end(f, char) ==
    IF char = SP \/ char = TAB
    THEN Did([f EXCEPT !.buffer = Append(f.buffer, char)], <<>>, TRUE)
    ELSE Did([f EXCEPT !.state = "OUTSIDE", !.active_delimiter_len = 0,
                       !.should_remove = FALSE, !.buffer = <<>>],
             IF f.should_remove THEN <<>> ELSE Append(f.buffer, char), TRUE)

\* InsideCheckingTrail with a rejecting backtick read as the start of a new run
InsideCheckingTrail_rescans(f, char) ==
    IF char = NL
    THEN Leave(f, char)
    ELSE IF char = SP \/ char = TAB
    THEN Did([f EXCEPT !.buffer = Append(f.buffer, char)], <<>>, TRUE)
    ELSE IF char = BT
    THEN Did([f EXCEPT !.buffer = <<BT>>, !.state = "INSIDE_CHECKING_TICKS"],
             IF ~f.should_remove THEN f.buffer ELSE <<>>, TRUE)
    ELSE Content(f, char)

\* the branch for self.state == "INSIDE_CHECKING_TRAIL"
InsideCheckingTrail(f, char) ==
    IF char = NL
    THEN Leave(f, char)
    ELSE IF char = SP \/ char = TAB
    THEN Did([f EXCEPT !.buffer = Append(f.buffer, char)], <<>>, TRUE)
    ELSE Content(f, char)

\* one pass of the body of `while not processed`
Pass(f, char, tl) ==
    CASE f.state = "OUTSIDE" -> Outside(f, char)
      [] f.state = "OUTSIDE_CHECKING_TICKS" -> OutsideCheckingTicks(f, char)
      [] f.state = "CAPTURING_LANG" -> CapturingLang(f, char, tl)
      [] f.state = "INSIDE" -> Inside(f, char)
      [] f.state = "INSIDE_CHECKING_TICKS" -> InsideCheckingTicks(f, char)
      [] f.state = "INSIDE_CHECKING_TRAIL" -> InsideCheckingTrail(f, char)

\* `while not processed` for one character
RECURSIVE ProcessChar(_, _, _)
ProcessChar(f, char, tl) ==
    LET p == Pass(f, char, tl)
    IN  IF p.processed
        THEN [f |-> p.f, out |-> p.out]
        ELSE LET q == ProcessChar(p.f, char, tl)
             IN  [f |-> q.f, out |-> p.out \o q.out]

\* `for char in chunk`: what each character appended is added to output (the
\* test on r.out makes TLC evaluate each character's pass before the next)
RECURSIVE ForChars(_, _, _, _)
ForChars(f, chunk, tl, output) ==
    IF chunk = <<>>
    THEN [f |-> f, out |-> output]
    ELSE LET r == ProcessChar(f, Head(chunk), tl)
         IN  IF r.out = <<>>
             THEN ForChars(r.f, Tail(chunk), tl, output)
             ELSE ForChars(r.f, Tail(chunk), tl, output \o r.out)

\* filter_chunk with the buffer started empty on every call
filter_chunk_local_buffer(f, chunk, tl) ==
    ForChars([f EXCEPT !.buffer = <<>>], chunk, tl, <<>>)

filter_chunk(f, chunk, tl) == ForChars(f, chunk, tl, <<>>)

SMFilter ==
    [state |-> state, buffer |-> buffer,
     active_delimiter_len |-> active_delimiter_len, should_remove |-> should_remove]

----------------------------------------------------------------------------
(* Extract filter: StreamingExtractCodeBlockFilter, utils/report.py *)

\* lang given as one string: the set holds it as given
AllowStr(l) == [isNone |-> FALSE, langs |-> {l}]

\* lang "" or "*", or an empty collection
AllowAll == [isNone |-> TRUE, langs |-> {}]

\* lang given as a non-empty collection
AllowSet(ls) == [isNone |-> FALSE, langs |-> ls]

\* __init__: the exception it raises ("" when none) and self.allowed_langs
extract_init(lang) ==
    IF lang.type = "str" /\ TheStr(lang) \in {<<>>, <<"*">>}
    THEN [error |-> "", allowed_langs |-> AllowAll]
    ELSE IF lang.type = "str"
    THEN [error |-> "", allowed_langs |-> AllowStr(TheStr(lang))]
    ELSE IF ~IsIterable(lang)
    THEN [error |-> "TypeError", allowed_langs |-> AllowAll]
    ELSE IF lang.items = {}
    THEN [error |-> "", allowed_langs |-> AllowAll]
    ELSE [error |-> "", allowed_langs |-> AllowSet(lang.items)]

\* the attributes __init__ sets
EXInitial == [buffer |-> <<>>, in_code_block |-> FALSE]

\* the marker both fences are searched by
EndMarker == Ticks(3)

\* s.find(sub, start): the lowest 0-based index from start on where sub occurs, or -1
RECURSIVE Find(_, _, _)
Find(s, sub, start) ==
    IF start + Len(sub) > Len(s) THEN -1
    ELSE IF SubSeq(s, start + 1, start + Len(sub)) = sub THEN start
    ELSE Find(s, sub, start + 1)

\* the loop that moves lang_end to the end of the line or of s
RECURSIVE LangEnd(_, _)
LangEnd(s, lang_end) ==
    IF lang_end < Len(s) /\ s[lang_end + 1] \notin {CR, NL}
    THEN LangEnd(s, lang_end + 1)
    ELSE lang_end

\* the end of the opening line: lang_end moved over "\r" and then over "\n"
SkipLine(s, lang_end) ==
    LET afterCR == IF lang_end < Len(s) /\ s[lang_end + 1] = CR
                   THEN lang_end + 1 ELSE lang_end
    IN  IF afterCR < Len(s) /\ s[afterCR + 1] = NL THEN afterCR + 1 ELSE afterCR

\* _match_start from search index i on (fence is its local pos): found, pos
\* and next_pos
RECURSIVE MatchStartFrom(_, _, _)
MatchStartFrom(s, i, al) ==
    IF ~(i < Len(s)) THEN [found |-> FALSE, pos |-> 0, next_pos |-> 0]
    ELSE LET fence == Find(s, EndMarker, i)
             lang_start == fence + 3
             lang_end == LangEnd(s, lang_start)
             lang == Strip(SubSeq(s, lang_start + 1, lang_end))
         IN  IF fence = -1 THEN [found |-> FALSE, pos |-> 0, next_pos |-> 0]
             ELSE IF al.isNone \/ lang \in al.langs
             THEN [found |-> TRUE, pos |-> fence, next_pos |-> SkipLine(s, lang_end)]
             ELSE MatchStartFrom(s, fence + 3, al)

match_start(s, al) == MatchStartFrom(s, 0, al)

\* `while self.buffer` of filter_chunk
RECURSIVE ExtractLoop(_, _, _)
ExtractLoop(g, output, al) ==
    IF g.buffer = <<>> THEN [g |-> g, out |-> output]
    ELSE IF ~g.in_code_block
    THEN LET res == match_start(g.buffer, al)
             safe_len == Len(g.buffer) - 6
         IN  IF ~res.found
             THEN [g |-> IF safe_len > 0
                         THEN [g EXCEPT !.buffer = From(g.buffer, safe_len)]
                         ELSE g,
                   out |-> output]
             ELSE ExtractLoop([g EXCEPT !.buffer = From(g.buffer, res.next_pos),
                                        !.in_code_block = TRUE],
                              output, al)
    ELSE LET end_pos == Find(g.buffer, EndMarker, 0)
         IN  IF end_pos = -1
             THEN [g |-> [g EXCEPT !.buffer = <<>>], out |-> output \o g.buffer]
             ELSE ExtractLoop([g EXCEPT !.buffer = From(g.buffer, end_pos + 3),
                                        !.in_code_block = FALSE],
                              output \o SubSeq(g.buffer, 1, end_pos), al)

\* filter_chunk that keeps the last character of a block's content back
extract_filter_chunk_keeps_tail(g, chunk, al) ==
    LET r == ExtractLoop([g EXCEPT !.buffer = g.buffer \o chunk], <<>>, al)
    IN  IF r.g.in_code_block /\ r.out # <<>>
        THEN [g |-> [r.g EXCEPT !.buffer = <<r.out[Len(r.out)]>>],
              out |-> SubSeq(r.out, 1, Len(r.out) - 1)]
        ELSE r

extract_filter_chunk(g, chunk, al) ==
    ExtractLoop([g EXCEPT !.buffer = g.buffer \o chunk], <<>>, al)

extract_finalize(g) ==
    [g |-> [buffer |-> <<>>, in_code_block |-> FALSE],
     out |-> IF g.in_code_block THEN g.buffer ELSE <<>>]

\* reset() with in_code_block left as it is
extract_reset_buffer_only(g) == [g EXCEPT !.buffer = <<>>]

extract_reset(g) == [buffer |-> <<>>, in_code_block |-> FALSE]

EXFilter == [buffer |-> ex_buffer, in_code_block |-> in_code_block]

----------------------------------------------------------------------------
(* Buffer-based remove filter: StreamingRemoveCodeBlockFilter, utils/report.py *)

\* the attributes __init__ sets besides block_type and the two markers
RMInitial == [buffer |-> <<>>, in_code_block |-> FALSE]

\* self.start_marker
start_marker(bt) == Ticks(3) \o bt

\* self.end_marker
rm_end_marker == Ticks(3)

\* `while self.buffer` of filter_chunk
RECURSIVE RemoveLoop(_, _, _)
RemoveLoop(g, output, bt) ==
    IF g.buffer = <<>> THEN [g |-> g, out |-> output]
    ELSE IF ~g.in_code_block
    THEN LET start_pos == Find(g.buffer, start_marker(bt), 0)
             safe_length == Len(g.buffer) - Len(start_marker(bt))
         IN  IF start_pos = -1
             THEN IF safe_length > 0
                  THEN [g |-> [g EXCEPT !.buffer = From(g.buffer, safe_length)],
                        out |-> output \o SubSeq(g.buffer, 1, safe_length)]
                  ELSE [g |-> g, out |-> output]
             ELSE RemoveLoop([g EXCEPT !.buffer = From(g.buffer,
                                                       start_pos + Len(start_marker(bt))),
                                       !.in_code_block = TRUE],
                             output \o SubSeq(g.buffer, 1, start_pos), bt)
    ELSE LET end_pos == Find(g.buffer, rm_end_marker, 0)
             safe_length == Len(g.buffer) - Len(rm_end_marker)
         IN  IF end_pos = -1
             THEN [g |-> IF safe_length > 0
                         THEN [g EXCEPT !.buffer = From(g.buffer, safe_length)]
                         ELSE g,
                   out |-> output]
             ELSE RemoveLoop([g EXCEPT !.buffer = From(g.buffer,
                                                       end_pos + Len(rm_end_marker)),
                                       !.in_code_block = FALSE],
                             output, bt)

\* filter_chunk that holds nothing back outside a block
remove_filter_chunk_flushes(g, chunk, bt) ==
    LET r == RemoveLoop([g EXCEPT !.buffer = g.buffer \o chunk], <<>>, bt)
    IN  IF r.g.in_code_block
        THEN r
        ELSE [g |-> [r.g EXCEPT !.buffer = <<>>], out |-> r.out \o r.g.buffer]

remove_filter_chunk(g, chunk, bt) ==
    RemoveLoop([g EXCEPT !.buffer = g.buffer \o chunk], <<>>, bt)

\* finalize() that flushes the buffer inside a block too
remove_finalize_always(g) ==
    [g |-> [g EXCEPT !.buffer = <<>>], out |-> g.buffer]

\* finalize() that returns nothing
remove_finalize_silent(g) ==
    [g |-> IF ~g.in_code_block THEN [g EXCEPT !.buffer = <<>>] ELSE g, out |-> <<>>]

remove_finalize(g) ==
    IF ~g.in_code_block
    THEN [g |-> [g EXCEPT !.buffer = <<>>], out |-> g.buffer]
    ELSE [g |-> g, out |-> <<>>]

remove_reset(g) == [buffer |-> <<>>, in_code_block |-> FALSE]

RMFilter == [buffer |-> rm_buffer, in_code_block |-> rm_in_code_block]

----------------------------------------------------------------------------
(* The texts of the explored streams. *)

Sigma == {BT, NL, SP, "j"}

RECURSIVE StringsUpTo(_)
StringsUpTo(n) ==
    IF n = 0 THEN {<<>>}
    ELSE LET shorter == StringsUpTo(n - 1)
         IN  shorter \cup {Append(s, c) : s \in {t \in shorter : Len(t) = n - 1}, c \in Sigma}

Pres == {<<>>, <<"x", NL>>}
Tags == {<<"j">>, <<SP, "j">>, <<"x", SP>>}
Bodies == {<<>>, <<"x", NL>>, <<BT, BT, "x", NL>>, <<BT, BT, BT, "x", NL, BT, BT, BT, NL>>}
Blanks == {<<>>, <<SP>>, <<SP, TAB>>}
Tails == {<<>>, <<"x">>, <<BT>>}
Posts == {<<>>, <<"y", NL>>}

\* a text without structure
FreeShape(s) ==
    [kind |-> "free", pre |-> s, ticks |-> 0, tag |-> <<>>, body |-> <<>>,
     close |-> 0, trail |-> <<>>, post |-> <<>>]

\* pre, an opening run of `ticks` backticks, the tag line, the body, a run of
\* `close` backticks, the rest of that line (blanks, then nothing, a letter or
\* a backtick), and post
AllBlockShapes ==
    [kind : {"block"}, pre : Pres, ticks : 3..MaxTicks, tag : Tags, body : Bodies,
     close : 2..(MaxTicks + 1),
     trail : {b \o t : b \in Blanks, t \in Tails} \ {<<BT>>},
     post : Posts]

Compose(sh) ==
    IF sh.kind = "block"
    THEN sh.pre \o Ticks(sh.ticks) \o sh.tag \o <<NL>> \o sh.body
         \o Ticks(sh.close) \o sh.trail \o <<NL>> \o sh.post
    ELSE sh.pre

Json == <<"j", "s", "o", "n">>

\* before\n```json\n{"a":1}\n```\nafter\n
ExampleText ==
    <<"b", "e", "f", "o", "r", "e", NL>>
    \o Ticks(3) \o Json \o <<NL>>
    \o <<"{", "\"", "a", "\"", ":", "1", "}", NL>>
    \o Ticks(3) \o <<NL>>
    \o <<"a", "f", "t", "e", "r", NL>>

\* ``code``
InlineText == <<BT, BT, "c", "o", "d", "e", BT, BT>>

\* the closing run is one shorter than, as long as, or one longer than the opening run
BlockShapes == {sh \in AllBlockShapes : sh.close \in (sh.ticks - 1)..(sh.ticks + 1)}

FreeShapes == {FreeShape(s) : s \in StringsUpTo(MaxLen)}

ExampleShapes == {FreeShape(ExampleText), FreeShape(InlineText)}

\* a block whose lines end in a carriage return and a newline
CRLFText ==
    Ticks(3) \o <<"j", CR, NL, "x", CR, NL>> \o Ticks(3) \o <<CR, NL, "y", NL>>

\* a block opened by three backticks whose body holds the line ``` ```
RejectedCloseText ==
    Ticks(3) \o <<"j", NL>> \o Ticks(3) \o <<SP>> \o Ticks(3) \o <<NL, "y", NL>>

StreamInit ==
    /\ input = Compose(shape)
    /\ pos = 0
    /\ outputs = <<>>
    /\ done = FALSE

SMConstructed ==
    /\ state = SMInitial.state
    /\ buffer = SMInitial.buffer
    /\ active_delimiter_len = SMInitial.active_delimiter_len
    /\ should_remove = SMInitial.should_remove

EXConstructed ==
    /\ ex_buffer = EXInitial.buffer
    /\ in_code_block = EXInitial.in_code_block

RMConstructed ==
    /\ rm_buffer = RMInitial.buffer
    /\ rm_in_code_block = RMInitial.in_code_block

\* the filters that are not under test are constructed with the default argument
SMDefault == target_langs = sm_init(ArgStr(<<"*">>)).target_langs /\ SMConstructed
EXDefault == allowed_langs = extract_init(ArgStr(<<"*">>)).allowed_langs /\ EXConstructed
RMDefault == block_type = Json /\ RMConstructed

\* no caller drives a filter call by call
NoCalls == under_test = "none" /\ calls = <<>> /\ returned = <<>>

\* no reporter is part of the run
NoReporter ==
    /\ reporter = "none"
    /\ enable_llm_stream = FALSE
    /\ llm_task = "None"
    /\ content_index = 0
    /\ value_type = ""
    /\ finish_content = <<>>
    /\ queue = <<>>
    /\ reports = <<>>
    /\ ctx = "none"
    /\ exc_type = "None"

\* the server is not part of the run
NoServer ==
    /\ msg_queue = <<>>
    /\ unfinished = 0
    /\ enqueued = 0
    /\ websockets = <<>>
    /\ conns = <<>>
    /\ sender_pc = "none"
    /\ sender_cur = <<>>
    /\ handled = <<>>

\* no stream is delivered
NoStream == shape = FreeShape(<<>>) /\ StreamInit

\* blocks that differ in their tag line: the language as configured, in the
\* other letter case, between blanks, followed by more text, as the prefix of
\* a longer tag, no tag, another language
LangTags ==
    {<<"j">>, <<"J">>, <<SP, "j", SP, SP>>, <<"j", SP, "x">>, <<"j", "s">>, <<>>, <<"n">>}

LangShapes ==
    [kind : {"block"}, pre : Pres, ticks : {3}, tag : LangTags, body : {<<"x", NL>>},
     close : {3}, trail : {<<>>}, post : {<<"y", NL>>}]

JsonUpper == <<"J", "S", "O", "N">>
JsonCapital == <<"J", "s", "o", "n">>
Yaml == <<"y", "a", "m", "l">>

\* a block tagged JSON
UpperShape ==
    [kind |-> "block", pre |-> <<>>, ticks |-> 3, tag |-> JsonUpper, body |-> <<"x", NL>>,
     close |-> 3, trail |-> <<>>, post |-> <<"y", NL>>]

\* the arguments the filters are constructed with
EmptyArgs ==
    {ArgStr(<<>>), ArgStr(<<"*">>)} \cup {ArgColl(type, {}) : type \in {"list", "tuple", "set"}}

LangArgs ==
    EmptyArgs
    \cup {ArgStr(<<"j">>), ArgStr(<<"J">>), ArgStr(<<"j", "s">>),
          ArgColl("list", {<<"J">>, <<"n">>}), ArgColl("tuple", {<<"j">>}),
          ArgColl("set", {<<"n">>}),
          ArgInts("list", {<<"1">>, <<"2">>}), ArgInt, ArgNone}

UpperArgs == {ArgStr(Json), ArgColl("list", {JsonCapital, Yaml})}

----------------------------------------------------------------------------
(* Specification of a stream through the state-machine remove filter. *)

\* the sizes the producer may give the next chunk: empty, short, or all the rest
ChunkSizes == {n \in 0..(Len(input) - pos) : n <= MaxChunk \/ n = Len(input) - pos}

SMInit ==
    /\ \/ shape \in FreeShapes /\ lang_arg \in {ArgStr(<<"*">>), ArgStr(<<"j">>)}
       \/ shape \in BlockShapes /\ lang_arg = ArgStr(<<"j">>)
       \/ shape \in ExampleShapes /\ lang_arg = ArgStr(Json)
       \/ shape = FreeShape(RejectedCloseText) /\ lang_arg \in {ArgStr(<<"j">>), ArgStr(Json)}
       \/ shape = FreeShape(CRLFText) /\ lang_arg \in {ArgStr(<<"j">>), ArgStr(Json)}
    /\ error = sm_init(lang_arg).error
    /\ target_langs = sm_init(lang_arg).target_langs
    /\ StreamInit
    /\ SMConstructed
    /\ EXDefault /\ RMDefault /\ NoCalls /\ NoReporter /\ NoServer

\* the producer delivers the next n characters in one filter_chunk call
SMFilterChunk ==
    /\ error = ""
    /\ ~done
    /\ \E n \in ChunkSizes :
          LET r == filter_chunk(SMFilter, SubSeq(input, pos + 1, pos + n), target_langs)
          IN  /\ pos' = pos + n
              /\ outputs' = outputs \o r.out
              /\ state' = r.f.state
              /\ buffer' = r.f.buffer
              /\ active_delimiter_len' = r.f.active_delimiter_len
              /\ should_remove' = r.f.should_remove
    /\ UNCHANGED <<input, shape, done, target_langs, exVars, ctorVars, rmVars, callVars, repVars, wsVars>>

\* the stream ends: the class has no method that flushes self.buffer
SMStreamEnd ==
    /\ error = ""
    /\ ~done
    /\ pos = Len(input)
    /\ done' = TRUE
    /\ UNCHANGED <<input, shape, pos, outputs, smVars, exVars, ctorVars, rmVars, callVars, repVars, wsVars>>

SMNext == SMFilterChunk \/ SMStreamEnd

SpecSM == SMInit /\ [][SMNext]_vars

----------------------------------------------------------------------------
(* Specification of a stream through the extract filter. *)

EXInit ==
    /\ \/ shape \in FreeShapes /\ lang_arg \in {ArgStr(<<"*">>), ArgStr(<<"j">>)}
       \/ shape \in BlockShapes /\ lang_arg = ArgStr(<<"j">>)
       \/ shape \in ExampleShapes /\ lang_arg = ArgStr(Json)
    /\ error = extract_init(lang_arg).error
    /\ allowed_langs = extract_init(lang_arg).allowed_langs
    /\ StreamInit
    /\ EXConstructed
    /\ SMDefault /\ RMDefault /\ NoCalls /\ NoReporter /\ NoServer

\* the producer delivers the next n characters in one filter_chunk call
EXFilterChunk ==
    /\ error = ""
    /\ ~done
    /\ \E n \in ChunkSizes :
          LET r == extract_filter_chunk(EXFilter, SubSeq(input, pos + 1, pos + n),
                                        allowed_langs)
          IN  /\ pos' = pos + n
              /\ outputs' = outputs \o r.out
              /\ ex_buffer' = r.g.buffer
              /\ in_code_block' = r.g.in_code_block
    /\ UNCHANGED <<input, shape, done, allowed_langs, smVars, ctorVars, rmVars, callVars, repVars, wsVars>>

\* the stream ends: finalize() is called once
EXFinalize ==
    /\ error = ""
    /\ ~done
    /\ pos = Len(input)
    /\ LET r == extract_finalize(EXFilter)
       IN  /\ outputs' = outputs \o r.out
           /\ ex_buffer' = r.g.buffer
           /\ in_code_block' = r.g.in_code_block
    /\ done' = TRUE
    /\ UNCHANGED <<input, shape, pos, allowed_langs, smVars, ctorVars, rmVars, callVars, repVars, wsVars>>

EXNext == EXFilterChunk \/ EXFinalize

SpecEX == EXInit /\ [][EXNext]_vars

----------------------------------------------------------------------------
(* Specifications of streams of tagged blocks through filters constructed     *)
(* with every kind of lang argument.                                          *)

SMLangInit ==
    /\ \/ shape \in LangShapes /\ lang_arg \in LangArgs
       \/ shape = UpperShape /\ lang_arg \in UpperArgs
    /\ error = sm_init(lang_arg).error
    /\ target_langs = sm_init(lang_arg).target_langs
    /\ StreamInit
    /\ SMConstructed
    /\ EXDefault /\ RMDefault /\ NoCalls /\ NoReporter /\ NoServer

SpecSMLang == SMLangInit /\ [][SMNext]_vars

EXLangInit ==
    /\ \/ shape \in LangShapes /\ lang_arg \in LangArgs
       \/ shape = UpperShape /\ lang_arg \in UpperArgs
    /\ error = extract_init(lang_arg).error
    /\ allowed_langs = extract_init(lang_arg).allowed_langs
    /\ StreamInit
    /\ EXConstructed
    /\ SMDefault /\ RMDefault /\ NoCalls /\ NoReporter /\ NoServer

SpecEXLang == EXLangInit /\ [][EXNext]_vars

----------------------------------------------------------------------------
(* Specification of a stream through the buffer-based remove filter. *)

RMInit ==
    /\ \/ shape \in FreeShapes /\ block_type \in {<<"j">>, <<>>}
       \/ shape \in LangShapes /\ block_type = <<"j">>
       \/ shape = FreeShape(ExampleText) /\ block_type = Json
    /\ lang_arg = ArgStr(block_type)
    /\ error = ""
    /\ StreamInit
    /\ RMConstructed
    /\ SMDefault /\ EXDefault /\ NoCalls /\ NoReporter /\ NoServer

\* the producer delivers the next n characters in one filter_chunk call
RMFilterChunk ==
    /\ ~done
    /\ \E n \in ChunkSizes :
          LET r == remove_filter_chunk(RMFilter, SubSeq(input, pos + 1, pos + n),
                                       block_type)
          IN  /\ pos' = pos + n
              /\ outputs' = outputs \o r.out
              /\ rm_buffer' = r.g.buffer
              /\ rm_in_code_block' = r.g.in_code_block
    /\ UNCHANGED <<input, shape, done, block_type, smVars, exVars, ctorVars, callVars, repVars, wsVars>>

\* the stream ends: finalize() is called once
RMFinalize ==
    /\ ~done
    /\ pos = Len(input)
    /\ LET r == remove_finalize(RMFilter)
       IN  /\ outputs' = outputs \o r.out
           /\ rm_buffer' = r.g.buffer
           /\ rm_in_code_block' = r.g.in_code_block
    /\ done' = TRUE
    /\ UNCHANGED <<input, shape, pos, block_type, smVars, exVars, ctorVars, callVars, repVars, wsVars>>

RMNext == RMFilterChunk \/ RMFinalize

SpecRM == RMInit /\ [][RMNext]_vars

----------------------------------------------------------------------------
(* Specification of a caller that drives one utils/report.py filter call by   *)
(* call: filter_chunk with any chunk, finalize() and reset() in any order.    *)

CallChunks ==
    {Ticks(3), <<"j", NL>>, <<"x">>, Ticks(3) \o <<"j", NL, "x">>, <<NL>> \o Ticks(3) \o <<NL>>}

FilterChunkCall(chunk) == [op |-> "filter_chunk", chunk |-> chunk]
FinalizeCall == [op |-> "finalize", chunk |-> <<>>]
ResetCall == [op |-> "reset", chunk |-> <<>>]

\* what a method without a return statement returns
None == <<"None">>

\* the instance under test
Instance == IF under_test = "remove" THEN RMFilter ELSE EXFilter

\* one call on instance g of the class under test: the instance after it and
\* the value it returns
Call(g, call) ==
    CASE call.op = "filter_chunk" ->
            IF under_test = "remove"
            THEN remove_filter_chunk(g, call.chunk, block_type)
            ELSE extract_filter_chunk(g, call.chunk, allowed_langs)
      [] call.op = "finalize" ->
            IF under_test = "remove" THEN remove_finalize(g) ELSE extract_finalize(g)
      [] call.op = "reset" ->
            [g |-> IF under_test = "remove" THEN remove_reset(g) ELSE extract_reset(g),
             out |-> None]

CallsInit ==
    /\ \/ /\ under_test = "remove"
          /\ block_type \in {<<"j">>, <<>>}
          /\ lang_arg = ArgStr(block_type)
          /\ EXDefault
       \/ /\ under_test = "extract"
          /\ lang_arg \in {ArgStr(<<"*">>), ArgStr(<<"j">>)}
          /\ allowed_langs = extract_init(lang_arg).allowed_langs
          /\ block_type = Json
    /\ error = ""
    /\ RMConstructed /\ EXConstructed
    /\ calls = <<>> /\ returned = <<>>
    /\ SMDefault /\ NoStream /\ NoReporter /\ NoServer

\* one call on the instance under test: its attributes change and the call
\* and the value it returns are recorded
Does(call) ==
    /\ LET r == Call(Instance, call)
       IN  /\ IF under_test = "remove"
              THEN /\ rm_buffer' = r.g.buffer
                   /\ rm_in_code_block' = r.g.in_code_block
                   /\ UNCHANGED <<ex_buffer, in_code_block>>
              ELSE /\ ex_buffer' = r.g.buffer
                   /\ in_code_block' = r.g.in_code_block
                   /\ UNCHANGED <<rm_buffer, rm_in_code_block>>
           /\ calls' = Append(calls, call)
           /\ returned' = Append(returned, r.out)
    /\ UNCHANGED <<streamVars, smVars, ctorVars, block_type, allowed_langs, under_test,
                   repVars, wsVars>>

\* the caller calls filter_chunk with some chunk
CallFilterChunk ==
    /\ Len(calls) < MaxCalls
    /\ \E chunk \in CallChunks : Does(FilterChunkCall(chunk))

\* the caller calls finalize()
CallFinalize ==
    /\ Len(calls) < MaxCalls
    /\ Does(FinalizeCall)

\* the caller calls reset()
CallReset ==
    /\ Len(calls) < MaxCalls
    /\ Does(ResetCall)

CallsNext == CallFilterChunk \/ CallFinalize \/ CallReset

SpecCalls == CallsInit /\ [][CallsNext]_vars

----------------------------------------------------------------------------
----------------------------------------------------------------------------
(* The reporters of utils/report.py in an `async with` block with an LLM    *)
(* stream.  Inside the block the provider puts the chunks of the stream on  *)
(* the LLM stream queue and the block reports objects; the task started by  *)
(* __aenter__ takes the chunks from the queue and reports them; __aexit__   *)
(* ends the task and sends the last reports.  A report is its data as       *)
(* _format_data builds it, handed to the transport when it is built.        *)

\* a dict with a "type" entry, reported as an object
Obj == <<"{'type': 'react'}">>

\* isinstance(value, str)
IsStr(value) == value # None /\ value # Obj

\* "".join(list)
RECURSIVE Join(_)
Join(list) == IF list = <<>> THEN <<>> ELSE Head(list) \o Join(Tail(list))

\* the reporter instance
Reporter ==
    [kind |-> reporter, g |-> RMFilter, finish_content |-> finish_content,
     content_index |-> content_index, value_type |-> value_type, reports |-> reports]

\* _format_data and the hand-over of the data: the next content_index, the
\* type of the first dict reported, the value and the name
format_data(r, value, name) ==
    LET type == IF value = Obj THEN "react" ELSE r.value_type
        data == [name |-> name, value |-> value, type |-> type,
                 content_index |-> r.content_index + 1]
    IN  [r EXCEPT !.content_index = @ + 1,
                  !.value_type = type,
                  !.reports = Append(@, data)]

\* ResourceReporter.async_report
resource_async_report(r, value, name) == format_data(r, value, name)

\* ThoughtReporter.async_report that builds the data before it looks at the
\* filtered text
thought_async_report_counts_skipped(r, value, name) ==
    IF ~IsStr(value)
    THEN resource_async_report(r, value, name)
    ELSE LET f == remove_filter_chunk(r.g, value, Json)
         IN  IF f.out # <<>>
             THEN resource_async_report(
                      [r EXCEPT !.g = f.g, !.finish_content = Append(@, f.out)],
                      f.out, name)
             ELSE [r EXCEPT !.g = f.g, !.content_index = @ + 1]

\* ThoughtReporter.async_report with the filtered text not recorded
thought_async_report_unrecorded(r, value, name) ==
    IF ~IsStr(value)
    THEN resource_async_report(r, value, name)
    ELSE LET f == remove_filter_chunk(r.g, value, Json)
         IN  IF f.out # <<>>
             THEN resource_async_report([r EXCEPT !.g = f.g], f.out, name)
             ELSE [r EXCEPT !.g = f.g]

\* ThoughtReporter.async_report: a string goes through the filter, and what
\* the filter returns is recorded and reported unless it is empty
thought_async_report(r, value, name) ==
    IF ~IsStr(value)
    THEN resource_async_report(r, value, name)
    ELSE LET f == remove_filter_chunk(r.g, value, Json)
         IN  IF f.out # <<>>
             THEN resource_async_report(
                      [r EXCEPT !.g = f.g, !.finish_content = Append(@, f.out)],
                      f.out, name)
             ELSE [r EXCEPT !.g = f.g]

\* self.async_report
async_report(r, value, name) ==
    IF r.kind = "ThoughtReporter"
    THEN thought_async_report(r, value, name)
    ELSE resource_async_report(r, value, name)

\* ResourceReporter.__aexit__ from the end of the task on (all of it when the
\* task is not waited for)
resource_aexit(r, waited) == resource_async_report(r, None, "end_marker")

\* ThoughtReporter.__aexit__ from the end of the task on (all of it when the
\* task is not waited for)
thought_aexit(r, waited) ==
    LET remain_content == remove_finalize(r.g)
        s == IF waited
             THEN resource_async_report(
                      [r EXCEPT !.g = remain_content.g,
                                !.finish_content = Append(@, remain_content.out)],
                      remain_content.out, "content")
             ELSE r
    IN  resource_async_report(s, Join(s.finish_content), "end_marker")

aexit(r, waited) ==
    IF r.kind = "ThoughtReporter" THEN thought_aexit(r, waited) ELSE resource_aexit(r, waited)

\* the reporter is r from now on
Becomes(r) ==
    /\ rm_buffer' = r.g.buffer
    /\ rm_in_code_block' = r.g.in_code_block
    /\ finish_content' = r.finish_content
    /\ content_index' = r.content_index
    /\ value_type' = r.value_type
    /\ reports' = r.reports

\* a.```json.x.```.b with a newline for every dot but the first
BlockStream ==
    <<"a">> \o Ticks(3) \o Json \o <<NL, "x", NL>> \o Ticks(3) \o <<NL, "b">>

\* the same stream cut off inside the block
OpenBlockStream == <<"a">> \o Ticks(3) \o Json \o <<NL, "x">>

\* streams without a block, shorter and longer than the start marker
PlainStreams == {<<>>, <<"a", "b">>, <<"a", "b", "c", "d", "e", "f", "g", "h", "i">>}

Streams == {BlockStream, OpenBlockStream} \cup PlainStreams

ExcTypes == {"None", "CancelledError", "ValueError"}

\* the sizes the provider may give the next chunk of the stream: one
\* character, the longest chunk, or all the rest
StreamChunkSizes == {n \in ChunkSizes : n \in {1, MaxChunk} \/ n = Len(input) - pos} \ {0}

\* a reporter was constructed, with its own filter and list when it is a
\* ThoughtReporter
ReportInit ==
    /\ reporter \in {"ResourceReporter", "ThoughtReporter"}
    /\ enable_llm_stream \in BOOLEAN
    /\ llm_task = "None"
    /\ content_index = 0
    /\ value_type = ""
    /\ finish_content = <<>>
    /\ queue = <<>>
    /\ reports = <<>>
    /\ ctx = "constructed"
    /\ exc_type = "None"
    /\ shape \in {FreeShape(s) : s \in Streams}
    /\ StreamInit
    /\ block_type = Json
    /\ lang_arg = ArgStr(block_type)
    /\ error = ""
    /\ RMConstructed
    /\ SMDefault /\ EXDefault /\ NoCalls /\ NoServer

\* __aenter__: with enable_llm_stream the queue is created and the task started
AEnter ==
    /\ ctx = "constructed"
    /\ ctx' = "entered"
    /\ IF enable_llm_stream
       THEN queue' = <<>> /\ llm_task' = "running"
       ELSE UNCHANGED <<queue, llm_task>>
    /\ UNCHANGED <<streamVars, smVars, exVars, ctorVars, rmVars, callVars, reporter,
                   enable_llm_stream, content_index, value_type, finish_content,
                   reports, exc_type>>
    /\ UNCHANGED wsVars

\* inside the block the provider puts the next chunk of the stream on the queue
PutChunk ==
    /\ ctx = "entered"
    /\ enable_llm_stream
    /\ Len(queue) < MaxQueue
    /\ \E n \in StreamChunkSizes :
          /\ queue' = Append(queue, SubSeq(input, pos + 1, pos + n))
          /\ pos' = pos + n
    /\ UNCHANGED <<input, shape, outputs, done, smVars, exVars, ctorVars, rmVars,
                   callVars, reporter, enable_llm_stream, llm_task, content_index,
                   value_type, finish_content, reports, ctx, exc_type>>
    /\ UNCHANGED wsVars

\* inside the block an object is reported
ReportObject ==
    /\ ctx = "entered"
    /\ Cardinality({i \in 1..Len(reports) : reports[i].name = "object"}) < MaxObjects
    /\ Becomes(async_report(Reporter, Obj, "object"))
    /\ UNCHANGED <<streamVars, smVars, exVars, ctorVars, block_type, callVars, reporter,
                   enable_llm_stream, llm_task, queue, ctx, exc_type>>
    /\ UNCHANGED wsVars

\* one round of `while True` in _llm_stream_report: the task takes the next
\* item from the queue, returns when it is None and reports it otherwise
LLMStreamReport ==
    /\ llm_task = "running"
    /\ queue # <<>>
    /\ queue' = Tail(queue)
    /\ IF Head(queue) = None
       THEN /\ llm_task' = "finished"
            /\ UNCHANGED <<rm_buffer, rm_in_code_block, finish_content, content_index,
                           value_type, reports>>
       ELSE /\ Becomes(async_report(Reporter, Head(queue), "content"))
            /\ UNCHANGED llm_task
    /\ UNCHANGED <<streamVars, smVars, exVars, ctorVars, block_type, callVars, reporter,
                   enable_llm_stream, ctx, exc_type>>
    /\ UNCHANGED wsVars

\* __aexit__ with enable_llm_stream and no cancellation, up to `await
\* self._llm_task`: None is put on the queue
AExitAwait ==
    /\ ctx = "entered"
    /\ enable_llm_stream
    /\ \E exc \in ExcTypes \ {"CancelledError"} : exc_type' = exc
    /\ queue' = Append(queue, None)
    /\ ctx' = "awaiting"
    /\ UNCHANGED <<streamVars, smVars, exVars, ctorVars, rmVars, callVars, reporter,
                   enable_llm_stream, llm_task, content_index, value_type,
                   finish_content, reports>>
    /\ UNCHANGED wsVars

\* __aexit__ that does not wait for the task to end
AExitUnawaited ==
    /\ ctx = "awaiting"
    /\ llm_task' = "None"
    /\ Becomes(aexit(Reporter, TRUE))
    /\ ctx' = "exited"
    /\ UNCHANGED <<streamVars, smVars, exVars, ctorVars, block_type, callVars, reporter,
                   enable_llm_stream, queue, exc_type>>
    /\ UNCHANGED wsVars

\* __aexit__ from the end of the task on
AExitAwaited ==
    /\ ctx = "awaiting"
    /\ llm_task = "finished"
    /\ llm_task' = "None"
    /\ Becomes(aexit(Reporter, TRUE))
    /\ ctx' = "exited"
    /\ UNCHANGED <<streamVars, smVars, exVars, ctorVars, block_type, callVars, reporter,
                   enable_llm_stream, queue, exc_type>>
    /\ UNCHANGED wsVars

\* __aexit__ without enable_llm_stream or after a cancellation: the task is
\* not waited for
AExitAtOnce ==
    /\ ctx = "entered"
    /\ \E exc \in ExcTypes :
          /\ ~enable_llm_stream \/ exc = "CancelledError"
          /\ exc_type' = exc
    /\ Becomes(aexit(Reporter, FALSE))
    /\ ctx' = "exited"
    /\ UNCHANGED <<streamVars, smVars, exVars, ctorVars, block_type, callVars, reporter,
                   enable_llm_stream, llm_task, queue>>
    /\ UNCHANGED wsVars

ReportNext ==
    \/ AEnter
    \/ PutChunk
    \/ ReportObject
    \/ LLMStreamReport
    \/ AExitAwait
    \/ AExitAwaited
    \/ AExitAtOnce

SpecReport == ReportInit /\ [][ReportNext]_vars

----------------------------------------------------------------------------
(* The websocket server, web/server/server.py: the registry                   *)
(* CLIENT_WEBSOCKETS and the queue CLIENT_MSG_QUEUE of chat/communication.py,  *)
(* the background task websocket_message_sender and one websocket_endpoint    *)
(* coroutine per connection. A connection is its number in the order of       *)
(* acceptance; the registry maps a client_id to a connection, 0 when the key   *)
(* is absent.                                                                 *)

\* the client ids of the connections and of the messages
Clients == {"c1", "c2"}

\* the report messages: the keys of the dict that format_output_message reads
Msg(block, chat_id, name, type) ==
    [block |-> block, chat_id |-> chat_id, name |-> name, type |-> type]

Messages ==
    { Msg("Thought", "chat", "content", "react"),
      Msg("Thought", "chat", "object", "classify"),
      Msg("Browser", "", "url", "") }

\* format_block_thought: nothing for the intent classification, msg:create
\* for the object of a react or quick answer, msg:update for content and
\* end_marker, nothing otherwise
format_block_thought(report_msg) ==
    LET msg_type == IF report_msg.type = "react" THEN "think" ELSE "message"
    IN  IF report_msg.type = "classify" THEN None
        ELSE IF report_msg.name = "object" /\ report_msg.type \in {"react", "quick"}
        THEN <<"msg:create", msg_type>>
        ELSE IF report_msg.name = "content" THEN <<"msg:update", msg_type>>
        ELSE IF report_msg.name = "end_marker" THEN <<"msg:update", "finished">>
        ELSE None

\* format_output_message for a dict: None without block or chat_id, the
\* block's own format for a Thought, the dict itself for the blocks without one
format_output_message(report_msg) ==
    IF report_msg.block = "" \/ report_msg.chat_id = "" THEN None
    ELSE IF report_msg.block = "Thought" THEN format_block_thought(report_msg)
    ELSE <<"dict", report_msg.block, report_msg.name>>

\* json.dumps of what is not a str
dumps(formatted_msg) == <<"json">> \o formatted_msg

\* the server's state as one value
Server ==
    [msg_queue |-> msg_queue, unfinished |-> unfinished, enqueued |-> enqueued,
     websockets |-> websockets, conns |-> conns, sender_pc |-> sender_pc,
     sender_cur |-> sender_cur, handled |-> handled]

ServerBecomes(S) ==
    /\ msg_queue' = S.msg_queue
    /\ unfinished' = S.unfinished
    /\ enqueued' = S.enqueued
    /\ websockets' = S.websockets
    /\ conns' = S.conns
    /\ sender_pc' = S.sender_pc
    /\ sender_cur' = S.sender_cur
    /\ handled' = S.handled

\* CLIENT_MSG_QUEUE.put_nowait((client_id, message)) on the unbounded queue;
\* id is the message's number in the order of the puts
put_nowait(S, client_id, message) ==
    [S EXCEPT !.msg_queue = Append(@, [id |-> S.enqueued + 1, client_id |-> client_id,
                                       message |-> message]),
              !.enqueued = @ + 1,
              !.unfinished = @ + 1]

\* CLIENT_MSG_QUEUE.task_done()
task_done(S) == [S EXCEPT !.unfinished = @ - 1]

\* what the sender did with a message
Handled(m, outcome, ws) ==
    [id |-> m.id, client_id |-> m.client_id, message |-> m.message,
     outcome |-> outcome, ws |-> ws]

\* the sender's round with a message of an unregistered client put back on
\* the queue
sender_get_requeues(S) ==
    LET m == Head(S.msg_queue)
        T == [S EXCEPT !.msg_queue = Tail(@)]
        formatted_msg == format_output_message(m.message)
    IN  IF m.client_id = ""
        THEN [T EXCEPT !.handled = Append(@, Handled(m, "no_client_id", 0))]
        ELSE IF formatted_msg = None
        THEN [T EXCEPT !.handled = Append(@, Handled(m, "formatted_none", 0))]
        ELSE IF T.websockets[m.client_id] # 0
        THEN [T EXCEPT !.sender_pc = "send_text",
                       !.sender_cur = <<[id |-> m.id, client_id |-> m.client_id,
                                         message |-> m.message,
                                         text |-> dumps(formatted_msg),
                                         ws |-> T.websockets[m.client_id]]>>]
        ELSE task_done([T EXCEPT !.msg_queue = Append(@, m)])

\* one round of `while True` in websocket_message_sender up to `await
\* ws.send_text`: the oldest message is taken; `continue` for an empty
\* client_id and for a message formatted to None; the client's websocket is
\* looked up; without one the warning is printed and task_done() called
sender_get(S) ==
    LET m == Head(S.msg_queue)
        T == [S EXCEPT !.msg_queue = Tail(@)]
        formatted_msg == format_output_message(m.message)
    IN  IF m.client_id = ""
        THEN [T EXCEPT !.handled = Append(@, Handled(m, "no_client_id", 0))]
        ELSE IF formatted_msg = None
        THEN [T EXCEPT !.handled = Append(@, Handled(m, "formatted_none", 0))]
        ELSE IF T.websockets[m.client_id] # 0
        THEN [T EXCEPT !.sender_pc = "send_text",
                       !.sender_cur = <<[id |-> m.id, client_id |-> m.client_id,
                                         message |-> m.message,
                                         text |-> dumps(formatted_msg),
                                         ws |-> T.websockets[m.client_id]]>>]
        ELSE task_done([T EXCEPT !.handled = Append(@, Handled(m, "no_websocket", 0))])

\* the rest of the round with the registry left alone after a failed send
sender_sent_keeps_entry(S, ok) ==
    LET m == S.sender_cur[1]
    IN  task_done([S EXCEPT !.handled = Append(@, Handled(m, IF ok THEN "sent" ELSE "failed", m.ws)),
                            !.sender_pc = "get",
                            !.sender_cur = <<>>])

\* the rest of the round, from the end of `await ws.send_text` on: after an
\* exception the client's entry is popped from the registry; task_done() is
\* called either way
sender_sent(S, ok) ==
    LET m == S.sender_cur[1]
        T == [S EXCEPT !.handled = Append(@, Handled(m, IF ok THEN "sent" ELSE "failed", m.ws)),
                       !.sender_pc = "get",
                       !.sender_cur = <<>>]
    IN  task_done(IF ok THEN T ELSE [T EXCEPT !.websockets[m.client_id] = 0])

\* websocket_endpoint up to its loop: the connection is accepted and
\* registered under its client_id
endpoint_accept(S, client_id) ==
    [S EXCEPT !.conns = Append(@, [client_id |-> client_id, status |-> "open"]),
              !.websockets[client_id] = Len(S.conns) + 1]

\* the end of websocket_endpoint of connection n: the `finally` pops the
\* client_id from the registry
endpoint_finally(S, n) ==
    [S EXCEPT !.conns[n].status = "closed",
              !.websockets[S.conns[n].client_id] = 0]

\* the server after the start of the application: the sender task waits on
\* the empty queue, nothing is registered
WSInit ==
    /\ msg_queue = <<>>
    /\ unfinished = 0
    /\ enqueued = 0
    /\ websockets = [c \in Clients |-> 0]
    /\ conns = <<>>
    /\ sender_pc = "get"
    /\ sender_cur = <<>>
    /\ handled = <<>>
    /\ NoStream /\ lang_arg = ArgStr(<<"*">>) /\ error = ""
    /\ SMDefault /\ EXDefault /\ RMDefault /\ NoCalls /\ NoReporter

WSUnchanged ==
    UNCHANGED <<streamVars, smVars, exVars, ctorVars, rmVars, callVars, repVars>>

\* a producer puts a message for a client id, or for none, on the queue
Enqueue ==
    /\ enqueued < MaxMsgs
    /\ \E client_id \in Clients \cup {""}, message \in Messages :
          ServerBecomes(put_nowait(Server, client_id, message))
    /\ WSUnchanged

\* the sender takes the next message
SenderGet ==
    /\ sender_pc = "get"
    /\ msg_queue # <<>>
    /\ ServerBecomes(sender_get(Server))
    /\ WSUnchanged

\* send_text returns: the connection is open
SendTextOk ==
    /\ sender_pc = "send_text"
    /\ conns[sender_cur[1].ws].status = "open"
    /\ ServerBecomes(sender_sent(Server, TRUE))
    /\ WSUnchanged

\* send_text raises: the connection is not open any more
SendTextFails ==
    /\ sender_pc = "send_text"
    /\ conns[sender_cur[1].ws].status # "open"
    /\ ServerBecomes(sender_sent(Server, FALSE))
    /\ WSUnchanged

\* a client connects to /ws/{client_id}
WSAccept ==
    /\ Len(conns) < MaxConns
    /\ \E client_id \in Clients : ServerBecomes(endpoint_accept(Server, client_id))
    /\ WSUnchanged

\* the peer of an open connection goes away; the endpoint has not run yet
WSPeerGone ==
    /\ \E n \in 1..Len(conns) :
          /\ conns[n].status = "open"
          /\ conns' = [conns EXCEPT ![n].status = "lost"]
    /\ UNCHANGED <<msg_queue, unfinished, enqueued, websockets, sender_pc, sender_cur,
                   handled>>
    /\ WSUnchanged

\* receive_text raises WebSocketDisconnect in the endpoint of a connection
\* whose peer went away
WSDisconnect ==
    /\ \E n \in 1..Len(conns) :
          /\ conns[n].status = "lost"
          /\ ServerBecomes(endpoint_finally(Server, n))
    /\ WSUnchanged

\* no text arrives within the timeout: the endpoint leaves its loop
WSTimeout ==
    /\ \E n \in 1..Len(conns) :
          /\ conns[n].status \in {"open", "lost"}
          /\ ServerBecomes(endpoint_finally(Server, n))
    /\ WSUnchanged

WSNext ==
    \/ Enqueue
    \/ SenderGet
    \/ SendTextOk
    \/ SendTextFails
    \/ WSAccept
    \/ WSPeerGone
    \/ WSDisconnect
    \/ WSTimeout

SpecWS == WSInit /\ [][WSNext]_vars

----------------------------------------------------------------------------
(* What the properties of the remove filter speak about. *)

\* the text delivered so far
Fed == SubSeq(input, 1, pos)

\* the text the filter holds back: the buffer, after the opening run while the
\* tag line is read
Pending ==
    IF state = "CAPTURING_LANG" THEN Ticks(active_delimiter_len) \o buffer ELSE buffer

InsideStates == {"INSIDE", "INSIDE_CHECKING_TICKS", "INSIDE_CHECKING_TRAIL"}

\* the whole of `text` through a fresh filter in one filter_chunk call
OneCall(text) == filter_chunk(SMInitial, text, target_langs)

\* length of the backtick run of s that starts at index i
RECURSIVE RunLen(_, _)
RunLen(s, i) == IF i <= Len(s) /\ s[i] = BT THEN 1 + RunLen(s, i + 1) ELSE 0

\* first index from i on that holds no space or tab (Len(s) + 1 when none)
RECURSIVE SkipBlanks(_, _)
SkipBlanks(s, i) ==
    IF i <= Len(s) /\ s[i] \in {SP, TAB} THEN SkipBlanks(s, i + 1) ELSE i

\* index of the first newline of s from i on, 0 when none
RECURSIVE NextNL(_, _)
NextNL(s, i) ==
    IF i > Len(s) THEN 0 ELSE IF s[i] = NL THEN i ELSE NextNL(s, i + 1)

\* the first confirmed closing fence of a block opened by n backticks whose
\* body starts at index i of s: a run of at least n backticks, blanks, a
\* newline.  <<index of the run's first backtick, index of the newline>>, or
\* <<0, 0>> when the block is never closed.  A character that rejects a
\* candidate is block content and is not read again.
RECURSIVE Closer(_, _, _)
Closer(s, i, n) ==
    IF i > Len(s) THEN <<0, 0>>
    ELSE IF s[i] # BT THEN Closer(s, i + 1, n)
    ELSE LET r == RunLen(s, i)
             q == SkipBlanks(s, i + r)
         IN  IF r < n THEN Closer(s, i + r, n)
             ELSE IF q > Len(s) THEN <<0, 0>>
             ELSE IF s[q] = NL THEN <<i, q>>
             ELSE Closer(s, q + 1, n)

CloseStart(s, i, n) == Closer(s, i, n)[1]
CloseEnd(s, i, n) == Closer(s, i, n)[2]

\* the trimmed tag satisfies the language predicate, letter case ignored
Matches(tag, tl) ==
    tl.isNone \/ \E l \in tl.langs : LowerStr(Strip(tag)) = LowerStr(l)

\* s from index i on (i outside any block) with the matched blocks deleted:
\* a block is matched when its tag matches; it spans from its opening run to
\* the newline of its confirmed closing fence, or to the end of s
RECURSIVE RemoveMatched(_, _, _)
RemoveMatched(s, i, tl) ==
    IF i > Len(s) THEN <<>>
    ELSE IF s[i] # BT THEN <<s[i]>> \o RemoveMatched(s, i + 1, tl)
    ELSE LET r == RunLen(s, i)
             k == NextNL(s, i + r)
             e == CloseEnd(s, k + 1, r)
         IN  IF r < 3 THEN Ticks(r) \o RemoveMatched(s, i + r, tl)
             ELSE IF k = 0 THEN SubSeq(s, i, Len(s))
             ELSE IF Matches(SubSeq(s, i + r, k - 1), tl)
                  THEN IF e = 0 THEN <<>> ELSE RemoveMatched(s, e + 1, tl)
                  ELSE IF e = 0 THEN SubSeq(s, i, Len(s))
                       ELSE SubSeq(s, i, e) \o RemoveMatched(s, e + 1, tl)

\* a generated block whose body holds no closing fence of its own
IsBlock == shape.kind = "block" /\ CloseEnd(shape.body, 1, shape.ticks) = 0

\* its closing line is a confirmed closing fence
ClosedBlock == IsBlock /\ shape.close >= shape.ticks /\ shape.trail \in Blanks

TagMatches == Matches(shape.tag, target_langs)

\* characters up to and including the newline of the tag line
OpenEnd == Len(shape.pre) + shape.ticks + Len(shape.tag) + 1

\* characters up to and including the closing backtick run
RunEnd == OpenEnd + Len(shape.body) + shape.close

\* characters up to and including the newline after the closing line
BlockEnd == RunEnd + Len(shape.trail) + 1

----------------------------------------------------------------------------
(* C1: over a stream's lifetime the remove filter returns exactly the input   *)
(* with the matched blocks deleted: once the stream has ended, the            *)
(* concatenation of everything returned equals RemoveMatched of the input.    *)
C1_LosslessRemove ==
    done => outputs = RemoveMatched(input, 1, target_langs)

----------------------------------------------------------------------------
(* C2: however the text delivered so far was cut into chunks, the values      *)
(* returned, concatenated, and the filter's attributes are those of one       *)
(* filter_chunk call on that text; and nothing was returned since the pending *)
(* backtick run or tag line began.                                            *)
C2_ChunkingInvariant ==
    /\ outputs = OneCall(Fed).out
    /\ SMFilter = OneCall(Fed).f
    /\ Len(Pending) <= pos
    /\ outputs = OneCall(SubSeq(input, 1, pos - Len(Pending))).out

\* a chunk ended in the middle of a backtick run, of a tag line, and of the
\* blanks after a closing run
C2_Witness ==
    /\ pos < Len(input)
    /\ \/ state = "OUTSIDE_CHECKING_TICKS" /\ input[pos + 1] = BT
       \/ state = "CAPTURING_LANG" /\ buffer # <<>> /\ input[pos + 1] # NL
       \/ state = "INSIDE_CHECKING_TRAIL" /\ input[pos + 1] = TAB

----------------------------------------------------------------------------
(* C3: every character of a block whose tag matches is suppressed, from its   *)
(* opening run to the newline of its confirmed closing fence, and the text    *)
(* before and after it is returned unchanged; with predicate json the text    *)
(* before\n(3 backticks)json\n{"a":1}\n(3 backticks)\nafter\n gives           *)
(* before\nafter\n and leaves nothing pending.                                *)
C3_MatchedBlockSuppressed ==
    /\ (ClosedBlock /\ TagMatches) =>
          /\ pos <= Len(shape.pre) => outputs = SubSeq(shape.pre, 1, pos)
          /\ (pos >= Len(shape.pre) /\ pos <= BlockEnd) => outputs = shape.pre
          /\ pos >= BlockEnd =>
                /\ outputs = shape.pre \o SubSeq(shape.post, 1, pos - BlockEnd)
                /\ state = "OUTSIDE"
                /\ buffer = <<>>
    /\ (input = ExampleText /\ pos = Len(input)) =>
          /\ outputs = <<"b", "e", "f", "o", "r", "e", NL, "a", "f", "t", "e", "r", NL>>
          /\ state = "OUTSIDE"
          /\ buffer = <<>>

\* a matched block with text before and after it has been delivered in full
C3_Witness ==
    /\ ClosedBlock /\ TagMatches
    /\ shape.pre # <<>> /\ shape.body # <<>> /\ shape.trail # <<>> /\ shape.post # <<>>
    /\ pos = Len(input)
    /\ outputs = shape.pre \o shape.post

----------------------------------------------------------------------------
(* C4: a block whose tag does not match passes through byte for byte: what    *)
(* was returned, followed by the pending text, is the text delivered so far,  *)
(* and once the block and the text after it are delivered everything has been *)
(* returned.                                                                  *)
C4_UnmatchedBlockVerbatim ==
    (ClosedBlock /\ ~TagMatches) =>
        /\ outputs \o Pending = Fed
        /\ pos >= BlockEnd => (outputs = Fed /\ state = "OUTSIDE")

\* an unmatched block with an untrimmed tag, a body, blanks after its closing
\* run and text after it has been delivered in full
C4_Witness ==
    /\ ClosedBlock /\ ~TagMatches
    /\ Strip(shape.tag) # shape.tag
    /\ shape.body # <<>> /\ shape.trail # <<>> /\ shape.post # <<>>
    /\ shape.close > shape.ticks
    /\ pos = Len(input)
    /\ outputs = input

----------------------------------------------------------------------------
(* C5: a run of one or two backticks met outside a block never opens a block: *)
(* once a character that is no backtick has followed it, the run and that     *)
(* character have been returned unchanged and the filter is in OUTSIDE; and   *)
(* the text (2 backticks)code(2 backticks) is returned in full over the       *)
(* stream's lifetime.                                                         *)
C5_ShortRunAfter(r) ==
    LET before == OneCall(SubSeq(input, 1, pos - r - 1))
    IN  (/\ pos >= r + 1
         /\ before.f.state = "OUTSIDE"
         /\ SubSeq(input, pos - r, pos - 1) = Ticks(r)
         /\ input[pos] # BT)
        => /\ state = "OUTSIDE"
           /\ outputs = before.out \o SubSeq(input, pos - r, pos)

C5_ShortRunIsContent ==
    /\ \A r \in 1..2 : C5_ShortRunAfter(r)
    /\ (input = InlineText /\ done) => outputs = InlineText

----------------------------------------------------------------------------
(* C6: inside a block opened by n backticks a run of fewer than n backticks   *)
(* never closes it, whatever follows: the filter stays inside the block with  *)
(* the same opening length and the same suppress decision, and the run and    *)
(* what follows it are content of the block.                                  *)
C6_ShortRunDoesNotClose ==
    (IsBlock /\ shape.close < shape.ticks /\ pos >= OpenEnd) =>
        /\ state \in InsideStates
        /\ active_delimiter_len = shape.ticks
        /\ should_remove = TagMatches
        /\ TagMatches => outputs = shape.pre
        /\ ~TagMatches => outputs \o Pending = Fed

\* a block opened by 4 backticks, its line of 3 backticks and the text after
\* it have been delivered, and the filter is still inside the block
C6_Witness ==
    /\ IsBlock /\ shape.ticks = 4 /\ shape.close = 3 /\ shape.trail = <<>>
    /\ shape.post # <<>>
    /\ pos = Len(input)
    /\ state = "INSIDE"

----------------------------------------------------------------------------
(* C7: the filter leaves a block only when a run of at least the opening      *)
(* length is followed by blanks and a newline; when another character follows *)
(* the run and the blanks, all of them are content of the block under its     *)
(* suppress decision and the filter is in INSIDE again.                       *)
C7_CloseNeedsNewline ==
    /\ (IsBlock /\ pos >= OpenEnd /\ state \notin InsideStates) =>
          (ClosedBlock /\ pos >= BlockEnd)
    /\ (ClosedBlock /\ pos >= BlockEnd) => state \notin InsideStates
    /\ (/\ IsBlock /\ shape.close >= shape.ticks /\ shape.trail \notin Blanks
        /\ pos = RunEnd + Len(shape.trail)) =>
          /\ state = "INSIDE"
          /\ buffer = <<>>
          /\ active_delimiter_len = shape.ticks
          /\ should_remove = TagMatches
          /\ TagMatches => outputs = shape.pre
          /\ ~TagMatches => outputs = Fed

\* a long enough run and blanks were followed by a letter: the filter is in
\* INSIDE again and the block is unmatched, so all of it was returned
C7_Witness ==
    /\ IsBlock /\ shape.close >= shape.ticks
    /\ shape.trail = <<SP, TAB, "x">>
    /\ ~TagMatches
    /\ pos = RunEnd + Len(shape.trail)
    /\ state = "INSIDE"
    /\ outputs = Fed

----------------------------------------------------------------------------
(* C8: a matched block that contains a nested fenced block is removed whole,  *)
(* the nested fence lines and body included; the outer block ends at its own  *)
(* closing fence and the text after it is returned.                           *)
NestedBody == <<BT, BT, BT, "x", NL, BT, BT, BT, NL>>

\* the outer block: any opening run, a matching tag, the nested block as body,
\* a closing line that is a fence for its opening run
OuterBlock ==
    /\ shape.kind = "block"
    /\ shape.body = NestedBody
    /\ TagMatches
    /\ shape.close >= shape.ticks
    /\ shape.trail \in Blanks

----------------------------------------------------------------------------
(* What the properties of the extract filter speak about. *)

TagAllowed == Matches(shape.tag, allowed_langs)

\* the bodies of the matched blocks of s from index i on (i outside any
\* block), in order: the text between the newline of the tag line and the
\* closing fence, or the end of s for a block that is never closed
RECURSIVE MatchedBodies(_, _, _)
MatchedBodies(s, i, tl) ==
    IF i > Len(s) THEN <<>>
    ELSE IF s[i] # BT THEN MatchedBodies(s, i + 1, tl)
    ELSE LET r == RunLen(s, i)
             k == NextNL(s, i + r)
             c == Closer(s, k + 1, r)
         IN  IF r < 3 THEN MatchedBodies(s, i + r, tl)
             ELSE IF k = 0 THEN <<>>
             ELSE IF c[2] = 0
                  THEN IF Matches(SubSeq(s, i + r, k - 1), tl)
                       THEN SubSeq(s, k + 1, Len(s)) ELSE <<>>
                  ELSE (IF Matches(SubSeq(s, i + r, k - 1), tl)
                        THEN SubSeq(s, k + 1, c[1] - 1) ELSE <<>>)
                       \o MatchedBodies(s, c[2] + 1, tl)

\* a can be had from b by deleting characters
RECURSIVE IsSubseq(_, _)
IsSubseq(a, b) ==
    IF a = <<>> THEN TRUE
    ELSE IF b = <<>> THEN FALSE
    ELSE IF Head(a) = Head(b) THEN IsSubseq(Tail(a), Tail(b))
    ELSE IsSubseq(a, Tail(b))

\* {"a":1}\n
ExampleBody == <<"{", "\"", "a", "\"", ":", "1", "}", NL>>

----------------------------------------------------------------------------
(* C9: what the extract filter returns for a matched block is exactly the     *)
(* text between the newline of its tag line and the start of its confirmed    *)
(* closing fence; with predicate json the text                                *)
(* before\n(3 backticks)json\n{"a":1}\n(3 backticks)\nafter\n in one chunk    *)
(* gives {"a":1}\n from filter_chunk and the empty string from finalize().    *)
C9_ExtractsBody ==
    /\ (ClosedBlock /\ TagAllowed /\ done) => outputs = shape.body
    /\ LET r == extract_filter_chunk(EXInitial, ExampleText, AllowStr(Json))
       IN  r.out = ExampleBody /\ extract_finalize(r.g).out = <<>>

----------------------------------------------------------------------------
(* C10: under every chunking, the extract filter returns no character of text *)
(* outside blocks, of a fence line, of a tag line or of an unmatched block:   *)
(* everything returned so far consists of characters of the bodies of the     *)
(* matched blocks, in their order.                                            *)
C10_OnlyMatchedBodies ==
    IsSubseq(outputs, MatchedBodies(input, 1, allowed_langs))

----------------------------------------------------------------------------
\* the whole of `text` through a fresh extract filter in one filter_chunk
\* call followed by finalize(): the two returned values, concatenated
EXOneCall(text) ==
    LET r == extract_filter_chunk(EXInitial, text, allowed_langs)
    IN  r.out \o extract_finalize(r.g).out

(* C11: however the text of a stream is cut into chunks, the values the       *)
(* extract filter returns from filter_chunk and finalize(), concatenated,     *)
(* are what it returns for the same text fed as a single chunk.               *)
C11_ExtractChunkingIndependent ==
    done => outputs = EXOneCall(input)

----------------------------------------------------------------------------
(* What the properties of a caller's call sequence speak about. *)

\* the instance of the class under test as __init__ leaves it
Fresh == IF under_test = "remove" THEN RMInitial ELSE EXInitial

\* the calls cs made in order on instance g: the instance after them and the
\* values they return
RECURSIVE Replay(_, _, _)
Replay(g, cs, rets) ==
    IF cs = <<>>
    THEN [g |-> g, returned |-> rets]
    ELSE LET r == Call(g, Head(cs))
         IN  Replay(r.g, Tail(cs), Append(rets, r.out))

\* index of the last reset() among the calls, 0 when there is none
LastReset ==
    IF \E i \in 1..Len(calls) : calls[i] = ResetCall
    THEN CHOOSE i \in 1..Len(calls) :
            /\ calls[i] = ResetCall
            /\ \A k \in (i + 1)..Len(calls) : calls[k] # ResetCall
    ELSE 0

\* the calls made since the last reset() and the values they returned
SinceReset(seq) == SubSeq(seq, LastReset + 1, Len(seq))

(* C12: once reset() has been called on a utils/report.py filter, whatever    *)
(* was called before it, the calls made since return the values they return   *)
(* on a freshly constructed instance with the same configuration, and leave   *)
(* the instance with the same attributes.                                     *)
C12_ResetRestoresFresh ==
    LastReset > 0 =>
        /\ SinceReset(returned) = Replay(Fresh, SinceReset(calls), <<>>).returned
        /\ Instance = Replay(Fresh, SinceReset(calls), <<>>).g

\* reset() was called on an instance that was inside a block with text in its
\* buffer, and the chunk fed after it brought a returned value and left the
\* instance outside any block
C12_Witness ==
    /\ LastReset = 2
    /\ LET before == Replay(Fresh, SubSeq(calls, 1, 1), <<>>).g
       IN  before.in_code_block /\ before.buffer # <<>>
    /\ Len(calls) = 3
    /\ calls[3].op = "filter_chunk"
    /\ returned[3] # <<>>
    /\ ~Instance.in_code_block

----------------------------------------------------------------------------
(* What the properties of the lang argument speak about. *)

\* the lang argument is a string or a collection of strings
ValidArg == lang_arg.type = "str" \/ (IsIterable(lang_arg) /\ lang_arg.of = "str")

\* it names languages: one string other than "" and "*", or a collection of
\* strings that is not empty
NamesLangs == ValidArg /\ lang_arg \notin EmptyArgs

\* the trimmed tag of the block is one of the named languages, letter case
\* ignored on both sides
NamedIgnoringCase ==
    \E l \in lang_arg.items : LowerStr(Strip(shape.tag)) = LowerStr(l)

\* the trimmed tag of the block is one of the named languages as written
NamedAsWritten == Strip(shape.tag) \in lang_arg.items

\* the tag line has been delivered and the closing fence has not
InBlock == pos >= OpenEnd /\ pos < BlockEnd

(* C13: the state-machine remove filter matches languages without regard to   *)
(* letter case on both sides: with a lang argument that names languages, a    *)
(* block is suppressed exactly when its trimmed tag, lower-cased, equals one  *)
(* of the lower-cased names; a block tagged JSON is removed with lang json    *)
(* and with lang [Json, yaml].                                                *)
C13_CaseInsensitiveMatch ==
    (IsBlock /\ NamesLangs) =>
        /\ error = ""
        /\ InBlock => should_remove = NamedIgnoringCase
        /\ pos = Len(input) =>
              outputs = IF NamedIgnoringCase THEN shape.pre \o shape.post ELSE input

\* the block tagged JSON has passed a filter constructed with [Json, yaml]
\* and only the text after it was returned
C13_Witness ==
    /\ shape = UpperShape
    /\ lang_arg = ArgColl("list", {JsonCapital, Yaml})
    /\ pos = Len(input)
    /\ outputs = shape.post

----------------------------------------------------------------------------
(* C14: the extract filter matches languages without regard to letter case:   *)
(* with a lang argument that names languages, a block whose trimmed tag       *)
(* equals one of the names when letter case is ignored is entered once its    *)
(* tag line is delivered, and its body is among what has been returned when   *)
(* the stream has ended.                                                      *)
C14_ExtractIgnoresCase ==
    (IsBlock /\ NamesLangs /\ NamedIgnoringCase) =>
        /\ error = ""
        /\ (pos >= OpenEnd /\ pos < RunEnd) => in_code_block
        /\ done => IsSubseq(shape.body, outputs)

----------------------------------------------------------------------------
(* C15: the state-machine remove filter constructed with "", with "*" or with *)
(* an empty list, tuple or set matches every block: whatever the tag, the     *)
(* block is suppressed and only the text around it is returned.               *)
C15_EmptyArgMatchesAll ==
    (IsBlock /\ lang_arg \in EmptyArgs) =>
        /\ error = ""
        /\ InBlock => should_remove
        /\ pos = Len(input) => outputs = shape.pre \o shape.post

----------------------------------------------------------------------------
(* C16: constructing the state-machine remove filter with a lang argument     *)
(* that is neither a string nor a collection of strings raises an error, so   *)
(* that no instance exists and nothing is ever filtered.                      *)
C16_InvalidArgRejected ==
    ~ValidArg => (error # "" /\ pos = 0 /\ outputs = <<>>)

----------------------------------------------------------------------------
(* C17: the tag tested against the named languages is the whole rest of the   *)
(* opening line, trimmed, and the match is exact.  For the extract filter: a  *)
(* block whose trimmed tag is one of the names is entered once its tag line   *)
(* is delivered, and a block whose trimmed tag is none of them (a name        *)
(* followed by more text, a longer word that starts with a name) is never     *)
(* entered, so that nothing is returned.                                      *)
C17_TagIsWholeLine ==
    (IsBlock /\ NamesLangs /\ error = "") =>
        /\ NamedAsWritten => ((pos >= OpenEnd /\ pos < RunEnd) => in_code_block)
        /\ ~NamedIgnoringCase => (~in_code_block /\ outputs = <<>>)

----------------------------------------------------------------------------
(* C18: the buffer-based remove filter suppresses a block of its block type   *)
(* whole, fence lines and their newlines included: once the stream has ended  *)
(* exactly the text before and after the block has been returned; with block  *)
(* type json the text before\n(3 backticks)json\n{"a":1}\n(3 backticks)\nafter\n *)
(* gives before\nafter\n.                                                     *)
C18_RemoveSuppressesBlock ==
    /\ (IsBlock /\ shape.tag = block_type /\ done) => outputs = shape.pre \o shape.post
    /\ (input = ExampleText /\ block_type = Json /\ done) =>
          outputs = <<"b", "e", "f", "o", "r", "e", NL, "a", "f", "t", "e", "r", NL>>

----------------------------------------------------------------------------
(* C19: the buffer-based remove filter removes only blocks whose tag is its   *)
(* block type: a block whose trimmed tag is anything else, a longer word that *)
(* starts with the block type included, has been returned unchanged once the  *)
(* stream has ended.                                                          *)
C19_RemovesOnlyItsType ==
    (IsBlock /\ Strip(shape.tag) # block_type /\ done) => outputs = input

----------------------------------------------------------------------------
\* s holds no run of three or more backticks
NoFenceRun(s) == \A i \in 1..(Len(s) - 2) : SubSeq(s, i, i + 2) # Ticks(3)

(* C20: a text without a run of three or more backticks passes the            *)
(* buffer-based remove filter unchanged under every chunking and every block  *)
(* type: the filter never enters a block, what it has returned followed by    *)
(* its buffer is the text delivered so far, and after finalize() everything   *)
(* has been returned.                                                         *)
C20_NoFenceTextUnchanged ==
    NoFenceRun(input) =>
        /\ ~rm_in_code_block
        /\ ~done => outputs \o rm_buffer = Fed
        /\ done => (outputs = input /\ rm_buffer = <<>>)

\* a text of full length with a run of two backticks has been delivered and
\* finalized, and all of it was returned
C20_Witness ==
    /\ NoFenceRun(input)
    /\ Len(input) = MaxLen
    /\ \E i \in 1..(Len(input) - 1) : SubSeq(input, i, i + 1) = Ticks(2)
    /\ done
    /\ outputs = input

----------------------------------------------------------------------------
(* C21: at the end of the stream the buffer-based remove filter flushes what  *)
(* it holds back exactly when it is outside a block: finalize() returns the   *)
(* whole buffer when in_code_block is false and the empty string when a block *)
(* was opened and never closed.                                               *)
C21_FinalizeFlushesOutside ==
    [][RMFinalize =>
          outputs' = outputs \o (IF rm_in_code_block THEN <<>> ELSE rm_buffer)]_vars

\* finalize() was called inside a block that was never closed, with text in
\* the buffer, and only the text before the block has been returned
C21_Witness ==
    /\ done
    /\ rm_in_code_block
    /\ rm_buffer # <<>>
    /\ outputs = <<"j">>

----------------------------------------------------------------------------
(* What the properties of single characters speak about. *)

\* the characters a filter can be given: the ones it tests for, and another
Chars == {BT, NL, SP, TAB, CR, "x"}

SMStates ==
    {"OUTSIDE", "OUTSIDE_CHECKING_TICKS", "CAPTURING_LANG", "INSIDE",
     "INSIDE_CHECKING_TICKS", "INSIDE_CHECKING_TRAIL"}

\* number of passes of `while not processed` for one character, counted from
\* n on and no further than 3
RECURSIVE Passes(_, _, _, _)
Passes(f, char, tl, n) ==
    LET p == Pass(f, char, tl)
    IN  IF p.processed \/ n > 2 THEN n ELSE Passes(p.f, char, tl, n + 1)

\* the filter after the next character, were it char
After(char) == ProcessChar(SMFilter, char, target_langs)

(* C22: the state-machine remove filter raises no error and never hangs: in   *)
(* every reachable state the state is one of the six the loop has a branch    *)
(* for, and for every character the loop `while not processed` ends after at  *)
(* most two passes, in one of the six states.                                 *)
C22_EveryCharTerminates ==
    /\ error = ""
    /\ state \in SMStates
    /\ \A char \in Chars :
          /\ Passes(SMFilter, char, target_langs, 1) <= 2
          /\ After(char).f.state \in SMStates

\* a character that is no backtick follows an opening run of three backticks:
\* the loop takes two passes for it
C22_Witness ==
    /\ state = "OUTSIDE_CHECKING_TICKS"
    /\ Len(buffer) >= 3
    /\ pos < Len(input)
    /\ input[pos + 1] # BT
    /\ Passes(SMFilter, input[pos + 1], target_langs, 1) = 2

----------------------------------------------------------------------------
(* C23: should_remove is decided once per block, by the newline that ends the *)
(* tag line, and keeps its value until the block's confirmed close: a         *)
(* character that leaves the filter inside the block (content, a too-short    *)
(* run, a long-enough run followed by a character that rejects it) never      *)
(* changes it, and outside a block nothing but that newline changes it.       *)
C23_DecidedOncePerBlock ==
    \A char \in Chars :
       LET a == After(char).f
           tag == IF state = "CAPTURING_LANG" THEN buffer ELSE <<>>
           ends_tag_line ==
               /\ char = NL
               /\ \/ state = "CAPTURING_LANG"
                  \/ state = "OUTSIDE_CHECKING_TICKS" /\ Len(buffer) >= 3
       IN  /\ ends_tag_line =>
                 a.state = "INSIDE" /\ a.should_remove = Matches(tag, target_langs)
           /\ (state \notin InsideStates /\ ~ends_tag_line) =>
                 a.should_remove = should_remove
           /\ (state \in InsideStates /\ a.state \in InsideStates) =>
                 a.should_remove = should_remove
           /\ (state \in InsideStates /\ a.state \notin InsideStates) =>
                 char = NL /\ a.state = "OUTSIDE"

\* in a matched block a long-enough run and blanks were followed by a letter:
\* the candidate was rejected and the block is still being removed
C23_Witness ==
    /\ IsBlock /\ TagMatches
    /\ shape.close >= shape.ticks
    /\ shape.trail = <<SP, TAB, "x">>
    /\ pos = RunEnd + 3
    /\ state = "INSIDE"
    /\ should_remove

----------------------------------------------------------------------------
IsTicks(s) == \A i \in 1..Len(s) : s[i] = BT

IsSuffix(s, of) ==
    Len(s) <= Len(of) /\ SubSeq(of, Len(of) - Len(s) + 1, Len(of)) = s

(* C24: the buffer holds only unresolved text: it is empty in OUTSIDE and     *)
(* INSIDE, a non-empty run of backticks in the two CHECKING_TICKS states, the *)
(* newline-free tag text in CAPTURING_LANG, and a run of at least the opening *)
(* length followed by one or more spaces or tabs in INSIDE_CHECKING_TRAIL; it *)
(* is always the end of the line being read, so ordinary text already         *)
(* processed adds nothing to it.                                              *)
C24_BufferHoldsUnresolved ==
    /\ state \in {"OUTSIDE", "INSIDE"} => buffer = <<>>
    /\ state \in {"OUTSIDE_CHECKING_TICKS", "INSIDE_CHECKING_TICKS"} =>
          buffer # <<>> /\ IsTicks(buffer)
    /\ state = "INSIDE_CHECKING_TRAIL" =>
          LET r == RunLen(buffer, 1)
          IN  /\ r >= active_delimiter_len
              /\ r < Len(buffer)
              /\ \A i \in (r + 1)..Len(buffer) : buffer[i] \in {SP, TAB}
    /\ \A i \in 1..Len(buffer) : buffer[i] # NL
    /\ IsSuffix(Pending, Fed)

\* lines of ordinary text and a short run were processed and returned: the
\* buffer is empty again
C24_Witness ==
    /\ state = "OUTSIDE"
    /\ buffer = <<>>
    /\ Len(outputs) >= 4
    /\ \E i \in 1..(Len(outputs) - 2) : outputs[i] = BT /\ outputs[i + 1] # BT

----------------------------------------------------------------------------
(* C25: active_delimiter_len is at least 3 in CAPTURING_LANG and in the three *)
(* inside states, and 0 with should_remove false in OUTSIDE and               *)
(* OUTSIDE_CHECKING_TICKS; should_remove is true only in the inside states.   *)
C25_LengthAndDecisionByState ==
    /\ state \in {"CAPTURING_LANG"} \cup InsideStates => active_delimiter_len >= 3
    /\ state \in {"OUTSIDE", "OUTSIDE_CHECKING_TICKS"} =>
          active_delimiter_len = 0 /\ ~should_remove
    /\ should_remove => state \in InsideStates

\* a matched block opened by four backticks was closed and a new run started
C25_Witness ==
    /\ ClosedBlock /\ TagMatches
    /\ shape.ticks = 4
    /\ pos > BlockEnd
    /\ state \in {"OUTSIDE", "OUTSIDE_CHECKING_TICKS"}
    /\ active_delimiter_len = 0

----------------------------------------------------------------------------
\* s holds a run of three or more backticks that starts a line
LineInitialFence(s) ==
    \E i \in 1..Len(s) : RunLen(s, i) >= 3 /\ (i = 1 \/ s[i - 1] = NL)

(* C26: a fence is line-initial: as long as the text delivered holds no run   *)
(* of three or more backticks at the start of a line, no block is opened.     *)
C26_FenceIsLineInitial ==
    ~LineInitialFence(Fed) => state \in {"OUTSIDE", "OUTSIDE_CHECKING_TICKS"}

----------------------------------------------------------------------------
(* C27: in INSIDE_CHECKING_TRAIL every character other than space, tab and    *)
(* newline, a backtick included, rejects the close: the buffer and the        *)
(* character are block content (returned unless the block is removed), the    *)
(* state is INSIDE with an empty buffer, and the character starts no new run; *)
(* the line ``` ``` in a block opened by three backticks does not close it.   *)
C27_TrailRejectIsContent ==
    /\ state = "INSIDE_CHECKING_TRAIL" =>
          \A char \in Chars \ {SP, TAB, NL} :
             LET r == After(char)
             IN  /\ r.f.state = "INSIDE"
                 /\ r.f.buffer = <<>>
                 /\ r.out = IF should_remove THEN <<>> ELSE Append(buffer, char)
                 /\ r.f.active_delimiter_len = active_delimiter_len
                 /\ r.f.should_remove = should_remove
    /\ (shape = FreeShape(RejectedCloseText) /\ pos >= 5) => state \in InsideStates
    /\ (shape = FreeShape(RejectedCloseText) /\ pos = Len(input)) =>
          /\ state = "INSIDE"
          /\ outputs = IF should_remove THEN <<>> ELSE input

\* the second run of the line ``` ``` was read in a block that is not removed
C27_Witness ==
    /\ shape = FreeShape(RejectedCloseText)
    /\ pos = 12
    /\ ~should_remove
    /\ state = "INSIDE_CHECKING_TICKS"
    /\ buffer = <<BT, BT>>
    /\ outputs = SubSeq(input, 1, 10)

----------------------------------------------------------------------------
\* the whole of `text` through a fresh buffer-based remove filter in one
\* filter_chunk call, then finalize()
RMOneCall(text) ==
    LET r == remove_filter_chunk(RMInitial, text, block_type)
    IN  r.out \o remove_finalize(r.g).out

(* C28: however the text is split into chunks, the values returned by the     *)
(* filter_chunk calls and by finalize() concatenate to what one filter_chunk  *)
(* call with the whole text followed by finalize() returns; between calls the *)
(* filter holds back at most the length of the start marker outside a block   *)
(* and at most 3 characters inside one.                                       *)
C28_RemoveChunkingIndependent ==
    /\ done => outputs = RMOneCall(input)
    /\ Len(rm_buffer) <=
          IF rm_in_code_block THEN 3 ELSE Len(start_marker(block_type))

\* a chunk ended after the second backtick of the start marker: both are held
\* back and no block is open yet
C28_Witness ==
    /\ shape \in LangShapes
    /\ shape.tag = <<"j">>
    /\ pos = Len(shape.pre) + 2
    /\ ~rm_in_code_block
    /\ IsSuffix(<<BT, BT>>, rm_buffer)

----------------------------------------------------------------------------
(* C30 as stated: after every character the output so far followed by the     *)
(* pending text equals the text delivered with the matched blocks deleted.    *)
C30_OutputPlusPendingAlways ==
    outputs \o Pending = RemoveMatched(Fed, 1, target_langs)

(* C30: after every character the output so far, followed by the pending      *)
(* text unless a block is being removed, equals the text delivered with the   *)
(* matched blocks deleted; when no block matched, the output followed by the  *)
(* pending text is the text delivered.                                        *)
C30_OutputPlusPending ==
    /\ outputs \o (IF should_remove THEN <<>> ELSE Pending)
          = RemoveMatched(Fed, 1, target_langs)
    /\ RemoveMatched(Fed, 1, target_langs) = Fed => outputs \o Pending = Fed

\* a backtick run is pending inside a block that is being removed, after text
\* before the block was returned
C30_Witness ==
    /\ state = "INSIDE_CHECKING_TICKS"
    /\ should_remove
    /\ buffer # <<>>
    /\ outputs # <<>>
    /\ outputs \o Pending # RemoveMatched(Fed, 1, target_langs)

----------------------------------------------------------------------------
\* the values of the reports sent as content, in order
ContentValues ==
    LET IsContent(d) == d.name = "content"
        c == SelectSeq(reports, IsContent)
    IN  [i \in 1..Len(c) |-> c[i].value]

\* the `async with` block of a ThoughtReporter with enable_llm_stream was left
\* without cancellation
ThoughtStreamExited ==
    /\ reporter = "ThoughtReporter"
    /\ ctx = "exited"
    /\ enable_llm_stream
    /\ exc_type # "CancelledError"

(* C29: when the context of a ThoughtReporter exits with LLM streaming        *)
(* enabled and without cancellation, the last report is the end_marker and    *)
(* its value is the concatenation, in order, of the values reported as        *)
(* content: the non-empty filtered chunks and, last, the remainder finalize() *)
(* returned, which together are the stream as filtered in one piece; no       *)
(* chunk was reported with an empty value.                                    *)
C29_EndMarkerJoinsContent ==
    ThoughtStreamExited =>
       LET last == reports[Len(reports)]
           c == ContentValues
       IN  /\ last.name = "end_marker"
           /\ Len(c) >= 1
           /\ last.value = Join(c)
           /\ last.value = RMOneCall(Fed)
           /\ \A i \in 1..(Len(c) - 1) : c[i] # <<>>
           /\ \A i \in 1..(Len(reports) - 1) : reports[i].name # "end_marker"

\* the whole stream with a block went through the reporter in several chunks:
\* text before the block was reported, the block was not, and the end_marker
\* holds the text around the block
C29_Witness ==
    /\ ThoughtStreamExited
    /\ input = BlockStream
    /\ pos = Len(input)
    /\ Len(ContentValues) >= 2
    /\ ContentValues[1] = <<"a">>
    /\ reports[Len(reports)].value = <<"a", NL, "b">>

----------------------------------------------------------------------------
(* C31: only a newline ends a line.  After a long-enough closing run (and     *)
(* after the blanks that follow one) a carriage return rejects the close: it  *)
(* is block content and the newline after it is content too, so the block     *)
(* stays open.  On the tag line a carriage return is added to the tag, and    *)
(* the newline after it decides as if the carriage return were not there.     *)
C31_OnlyNewlineEndsLine ==
    /\ (\/ state = "INSIDE_CHECKING_TICKS" /\ Len(buffer) >= active_delimiter_len
        \/ state = "INSIDE_CHECKING_TRAIL") =>
          LET a == After(CR)
              b == ProcessChar(a.f, NL, target_langs)
          IN  /\ a.f.state = "INSIDE" /\ a.f.buffer = <<>>
              /\ a.out = IF should_remove THEN <<>> ELSE Append(buffer, CR)
              /\ b.f.state = "INSIDE"
              /\ b.out = IF should_remove THEN <<>> ELSE <<NL>>
              /\ b.f.should_remove = should_remove
              /\ b.f.active_delimiter_len = active_delimiter_len
    /\ state = "CAPTURING_LANG" =>
          LET a == After(CR)
              b == ProcessChar(a.f, NL, target_langs)
          IN  /\ a.f.state = "CAPTURING_LANG" /\ a.f.buffer = Append(buffer, CR)
              /\ a.out = <<>>
              /\ b.f.state = "INSIDE"
              /\ b.f.should_remove = Matches(buffer, target_langs)
              /\ b.out = IF Matches(buffer, target_langs)
                         THEN <<>>
                         ELSE Ticks(active_delimiter_len) \o buffer \o <<CR, NL>>
    /\ (shape = FreeShape(CRLFText) /\ pos >= 6) =>
          /\ state \in InsideStates
          /\ should_remove = (lang_arg = ArgStr(<<"j">>))
    /\ (shape = FreeShape(CRLFText) /\ pos = Len(input)) =>
          /\ state = "INSIDE"
          /\ outputs = IF should_remove THEN <<>> ELSE input

\* the tag line j<CR><NL> matched, and the closing run of the block was
\* followed by a carriage return: the block is still being removed
C31_Witness ==
    /\ shape = FreeShape(CRLFText)
    /\ pos = 13
    /\ input[pos] = CR
    /\ state = "INSIDE"
    /\ should_remove
    /\ outputs = <<>>

----------------------------------------------------------------------------
(* C32: whenever filter_chunk of the extract filter has returned with the     *)
(* filter inside a block, the buffer is empty; so in every reachable state    *)
(* finalize() returns the empty string, and ending the stream adds nothing to *)
(* what the filter_chunk calls returned.                                      *)
C32_ExtractFinalizeEmpty ==
    /\ in_code_block => ex_buffer = <<>>
    /\ extract_finalize(EXFilter).out = <<>>

\* the whole stream was delivered, content of a block that was not closed was
\* returned by filter_chunk, and the filter is inside the block
C32_Witness ==
    /\ ~done
    /\ pos = Len(input)
    /\ in_code_block
    /\ outputs # <<>>

----------------------------------------------------------------------------
\* index of the last finalize() among the calls, 0 when there is none
LastFinalize ==
    IF \E i \in 1..Len(calls) : calls[i] = FinalizeCall
    THEN CHOOSE i \in 1..Len(calls) :
            /\ calls[i] = FinalizeCall
            /\ \A k \in (i + 1)..Len(calls) : calls[k] # FinalizeCall
    ELSE 0

(* C33: once finalize() has returned, a utils/report.py filter is in its      *)
(* initial state: the calls made after it, without a reset(), return the      *)
(* values they return on a freshly constructed instance and leave the         *)
(* instance with the same attributes, whatever was fed before.                *)
C33_FinalizeRestoresFresh ==
    LastFinalize > 0 =>
        LET after == SubSeq(calls, LastFinalize + 1, Len(calls))
            fresh == Replay(Fresh, after, <<>>)
        IN  /\ SubSeq(returned, LastFinalize + 1, Len(returned)) = fresh.returned
            /\ Instance = fresh.g

----------------------------------------------------------------------------
\* the `async with` block of a reporter with enable_llm_stream was left without
\* cancellation
StreamExited ==
    /\ ctx = "exited"
    /\ enable_llm_stream
    /\ exc_type # "CancelledError"

(* C34: when the context of a reporter exits with LLM streaming enabled and   *)
(* without cancellation, the queue is empty and the task has ended, the       *)
(* end_marker is the last report and the only one, and the content reported   *)
(* before it is, in order, everything that was put on the queue: the chunks   *)
(* themselves for a ResourceReporter, none of them empty, and the filtered    *)
(* stream for a ThoughtReporter.                                              *)
C34_StreamReportedBeforeEndMarker ==
    StreamExited =>
       LET c == ContentValues
       IN  /\ queue = <<>>
           /\ llm_task = "None"
           /\ reports[Len(reports)].name = "end_marker"
           /\ \A i \in 1..(Len(reports) - 1) : reports[i].name # "end_marker"
           /\ IF reporter = "ResourceReporter"
              THEN Join(c) = Fed /\ \A i \in 1..Len(c) : c[i] # <<>>
              ELSE Join(c) = RMOneCall(Fed)

\* a ResourceReporter reported the stream in several chunks and then the
\* end_marker
C34_Witness ==
    /\ StreamExited
    /\ reporter = "ResourceReporter"
    /\ input = BlockStream
    /\ pos = Len(input)
    /\ Len(ContentValues) >= 3
    /\ reports[Len(reports)].value = None

----------------------------------------------------------------------------
(* C38: a reporter numbers its reports consecutively from 1: the k-th report  *)
(* carries content_index k, also when a ThoughtReporter skipped chunks whose   *)
(* filtered text was empty.                                                   *)
C38_ContentIndexConsecutive ==
    /\ content_index = Len(reports)
    /\ \A k \in 1..Len(reports) : reports[k].content_index = k

\* a ThoughtReporter took at least five chunks from the queue, the last ones
\* inside a block, and sent two reports
C38_Witness ==
    /\ reporter = "ThoughtReporter"
    /\ ctx = "entered"
    /\ input = BlockStream
    /\ pos = 11
    /\ queue = <<>>
    /\ rm_in_code_block
    /\ Len(reports) = 2
    /\ reports[2].value = <<"a">>
    /\ reports[2].content_index = 2

----------------------------------------------------------------------------
\* the connections of a client whose endpoint has not ended
OpenConns(client_id) ==
    {n \in 1..Len(conns) : conns[n].client_id = client_id /\ conns[n].status # "closed"}

Newest(S) == CHOOSE n \in S : \A k \in S : k <= n

(* C35: while a connection of a client_id is open, the registry maps the      *)
(* client_id to the most recently accepted open connection, also after an     *)
(* older connection of the same client_id disconnected or timed out.          *)
C35_RegistryHoldsLiveConnection ==
    \A c \in Clients :
       OpenConns(c) # {} => websockets[c] = Newest(OpenConns(c))

----------------------------------------------------------------------------
Ids(seq) == [i \in 1..Len(seq) |-> seq[i].id]

(* C36: the sender handles the messages in the order they were put, every     *)
(* one once: the handled messages, the one being sent and the waiting ones    *)
(* are the messages 1..enqueued in order. What was sent went to a connection  *)
(* of the message's client and had a formatted form; a message without        *)
(* client_id, with the formatted form None or without a registered websocket  *)
(* was sent to no connection; and the sender waits in send_text only with a   *)
(* message it found a websocket for, so a dropped message holds up nothing.   *)
C36_DeliveredInOrderOnce ==
    /\ Ids(handled) \o Ids(sender_cur) \o Ids(msg_queue) = [i \in 1..enqueued |-> i]
    /\ \A i \in 1..Len(handled) :
          LET h == handled[i]
          IN  /\ h.outcome \in {"sent", "failed"} =>
                    /\ h.client_id # ""
                    /\ format_output_message(h.message) # None
                    /\ h.ws \in 1..Len(conns)
                    /\ conns[h.ws].client_id = h.client_id
              /\ h.outcome \in {"no_client_id", "formatted_none", "no_websocket"} =>
                    h.ws = 0
              /\ h.client_id = "" => h.outcome = "no_client_id"
              /\ h.client_id # "" /\ format_output_message(h.message) = None =>
                    h.outcome = "formatted_none"
    /\ sender_pc = "send_text" <=> sender_cur # <<>>
    /\ sender_cur # <<>> =>
          /\ sender_cur[1].ws \in 1..Len(conns)
          /\ conns[sender_cur[1].ws].client_id = sender_cur[1].client_id
          /\ sender_cur[1].text = dumps(format_output_message(sender_cur[1].message))

\* a message for a client without websocket and one formatted to None were
\* dropped, and the message put after them was sent
C36_Witness ==
    /\ Len(handled) = 3
    /\ handled[1].outcome = "no_websocket"
    /\ handled[2].outcome = "formatted_none"
    /\ handled[3].outcome = "sent"
    /\ handled[3].client_id = handled[1].client_id

----------------------------------------------------------------------------
(* C37: the step in which a send fails pops the entry of the message's        *)
(* client from the registry and no other entry, records the message as        *)
(* failed, returns nothing to the queue and leaves the sender ready to take   *)
(* the next message.                                                          *)
C37_FailedSendPopsEntry ==
    [][ ( /\ Len(handled') = Len(handled) + 1
          /\ handled'[Len(handled')].outcome = "failed" )
        => LET m == handled'[Len(handled')]
           IN  /\ sender_pc = "send_text"
               /\ m.id = sender_cur[1].id
               /\ websockets'[m.client_id] = 0
               /\ \A c \in Clients \ {m.client_id} : websockets'[c] = websockets[c]
               /\ msg_queue' = msg_queue
               /\ sender_pc' = "get"
               /\ sender_cur' = <<>> ]_vars

\* a send to a registered connection failed and its entry is gone; a message
\* put later for the other client was sent
C37_Witness ==
    \E i, j \in 1..Len(handled) :
       /\ i < j
       /\ handled[i].outcome = "failed"
       /\ handled[j].outcome = "sent"
       /\ handled[j].client_id # handled[i].client_id
       /\ conns[handled[i].ws].status = "lost"
       /\ websockets[handled[i].client_id] = 0
       /\ enqueued = handled[j].id

----------------------------------------------------------------------------
(* C39: task_done() is called once for every message taken from the queue, on *)
(* every path: the queue's count of unfinished tasks is the number of         *)
(* messages waiting or being sent, and is zero once the queue is drained.      *)
C39_TaskDoneForEveryMessage ==
    unfinished = Len(msg_queue) + Len(sender_cur)

====
